---- MODULE Spec2Model ----
(***************************************************************************)
(* ccmonitor: the hook handler (internal/hook) that writes one JSON file   *)
(* per Claude Code session into a shared directory, its cleanup rules, and *)
(* the readers of that directory: internal/session, and the viewer         *)
(* (internal/monitor, and the --once branch of main) that loads the        *)
(* records and marks the ones whose process is gone.                       *)
(*                                                                         *)
(* The directory is modelled as a function from file names to file         *)
(* contents.  One hook invocation is a short-lived process; its run() is   *)
(* split at the file-system calls it makes, so that invocations of         *)
(* different processes interleave between those calls.                     *)
(***************************************************************************)
EXTENDS Integers, Sequences, FiniteSets, TLC

\* ------------------------------------------------------------------ bounds
\* The clock runs over 1..MaxTime (whole seconds, as RFC3339 formats them).
MaxTime == 2
\* The flash ticks in flight are counted up to MaxFlashTicks.
MaxFlashTicks == 2
\* The wall clock of the live view runs up to MaxClock.
MaxClock == 3
\* Process ids are 1..MaxPid; 0 is "unknown".
MaxPid == 2

Pids == 1 .. MaxPid
SessionIDs == {"A", "B"}
Hooks == {"h1", "h2"}
Platforms == {"linux", "windows"}

\* ----------------------------------------------------- program constants
StatusStarting == "starting"
StatusWorking == "working"
StatusIdle == "idle"
StatusWaiting == "waiting"
StatusEnded == "ended"
StatusExited == "exited"

EventSessionStart == "SessionStart"
EventSessionEnd == "SessionEnd"
EventUserPromptSubmit == "UserPromptSubmit"
EventPreToolUse == "PreToolUse"
EventPostToolUse == "PostToolUse"
EventNotification == "Notification"
EventStop == "Stop"

NotifPermissionPrompt == "permission_prompt"
NotifElicitationDialog == "elicitation_dialog"

\* The command budget of a Bash tool description.
MaxCmdLen == 80

\* A nil *string (JSON null).
NilString == "<nil>"

\* ------------------------------------------------------------ the records
\* session.Session.  last_activity 0 is the empty string of a zero value;
\* runtime_id is the field stored as wt_tab_id; terminals is the list of
\* terminal-location descriptors [backend, id] that switcher.Switch reads.
ZeroSession ==
    [session_id |-> "", project |-> "", status |-> "", detail |-> "",
     last_prompt |-> "", notification_type |-> NilString, last_activity |-> 0,
     tmux_pane |-> "", summary |-> "", runtime_id |-> "", terminals |-> <<>>,
     pid |-> 0, os |-> ""]

\* termInfo: what the terminal lookup of one hook run returned.
NoTermInfo == [tmuxPane |-> "", summary |-> "", runtimeID |-> ""]

\* hookInput as decoded from stdin.  command, file_path, pattern and
\* description are the string fields of tool_input ("" when absent or not a
\* string); file_path is the sequence of its path elements.
ZeroInput ==
    [session_id |-> "", cwd |-> "", hook_event_name |-> "", tool_name |-> "",
     command |-> "",
     file_path |-> <<>>, pattern |-> "", description |-> "",
     notification_type |-> "", prompt |-> "", message |-> "", title |-> ""]

\* A directory entry <id>.json: absent, present but not parseable (empty or
\* partly written), or present and holding a record.
NoFile == [exists |-> FALSE, ok |-> FALSE, s |-> ZeroSession]
TornFile == [exists |-> TRUE, ok |-> FALSE, s |-> ZeroSession]
SessionFile(s) == [exists |-> TRUE, ok |-> TRUE, s |-> s]

\* A record left behind by the earlier hook version, which wrote no os tag.
LegacySession ==
    [ZeroSession EXCEPT !.session_id = "A", !.status = StatusIdle,
                        !.detail = "Finished responding", !.last_activity = 1,
                        !.pid = 1]

\* The other entries the directory may hold: a copy of a session file under
\* another extension, and a subdirectory whose name ends in .json.  path is
\* the entry's name, ext is filepath.Ext of it.
BackupPath == "B.json.bak"
ArchivePath == "archive.json"
StrayEntries ==
    {[path |-> BackupPath, ext |-> ".bak", isDir |-> FALSE],
     [path |-> ArchivePath, ext |-> ".json", isDir |-> TRUE]}

\* The record the copy holds.
BackupSession ==
    [ZeroSession EXCEPT !.session_id = "B", !.status = StatusWorking,
                        !.detail = "Processing prompt...", !.last_activity = 1,
                        !.pid = 2, !.os = "linux"]

\* os.ReadDir returns the entries sorted by file name.
DirOrder == <<"A", "B", BackupPath, ArchivePath>>

\* The local state of one hook process: where it is in run, its input, the
\* platform it runs on, what its terminal lookup answered, the record it
\* built, what ps.FindProcess answered and cleanupDead returned, the files its
\* two cleanups removed, and what run returned.
IdleHook ==
    [pc |-> "idle", input |-> ZeroInput, goos |-> "", ti |-> NoTermInfo,
     s |-> ZeroSession, find |-> [p \in Pids |-> "none"], sweepErr |-> "none",
     swept |-> {}, dups |-> {}, ret |-> "none"]

\* The goroutine that runs switcher.Switch for a click: whether it runs, the
\* descriptors of its session, how many of them it has examined, the
\* positions of the ones Select was called on, in call order, and what Switch
\* returned.
NoSwitch ==
    [running |-> FALSE, terms |-> <<>>, i |-> 0, calls |-> <<>>, ret |-> "none"]

\* The viewer process: whether the live view runs, the platform it runs on,
\* what its last LoadAll returned, what ps.FindProcess answered, the session
\* list it holds after CheckPIDLiveness, how a --once or --clean run ended,
\* and the other fields of monitor.Model: width, showSummary, debug, the
\* spinner frame, lastState (NilString for a session not seen), flashUntil (0
\* for the zero time), clickMap, statusMsg and statusUntil; the reload ticks
\* and the flash ticks that are scheduled and not yet handled, the latter
\* counted up to MaxFlashTicks; the goroutine of the last click.
NoViewer ==
    [running |-> FALSE, goos |-> "", loadErr |-> "none", loaded |-> <<>>,
     find |-> [p \in Pids |-> "none"], sessions |-> <<>>, exit |-> "none",
     width |-> 0, showSummary |-> FALSE, debug |-> FALSE, spinner |-> 1,
     lastState |-> [s \in SessionIDs |-> NilString],
     flashUntil |-> [s \in SessionIDs |-> 0], clickMap |-> <<>>,
     statusMsg |-> "", statusUntil |-> 0, ticks |-> 0, flashTicks |-> 0,
     sw |-> NoSwitch]

VARIABLES
    dirState,       \* the sessions directory: "missing" | "ok" | "unreadable"
    files,          \* file name (session id) -> directory entry
    procs,          \* the live processes, as <<platform, pid>>
    now,            \* the wall clock, in seconds
    hook,           \* hook process -> its local state
    lastSubmitted,  \* history: session -> prompt of the last UserPromptSubmit
                    \* written since the file was last absent or unreadable
    loadResult,     \* what a reader's last LoadFile returned
    lastWritten,    \* history: session -> the record last written to its file
                    \* since the file was last absent or unreadable
    strays,         \* the directory entries that are not session files
    viewer          \* the viewer (monitor.Model, or the --once snapshot)

vars == <<dirState, files, procs, now, hook, lastSubmitted, loadResult,
          lastWritten, strays, viewer>>

\* ------------------------------------------------------ internal/session
\* os.ReadDir: the error and the entries.
ReadDir(ds, dir) ==
    [err |-> IF ds = "ok" THEN "nil" ELSE IF ds = "missing" THEN "notexist" ELSE "other",
     entries |-> IF ds = "ok"
                 THEN {[path |-> f, ext |-> ".json", isDir |-> FALSE] :
                          f \in {g \in DOMAIN dir : dir[g].exists}} \cup strays
                 ELSE {}]

\* session.LoadFile: os.ReadFile, then json.Unmarshal.
LoadFile(ds, dir, path) ==
    IF ds = "unreadable" THEN [err |-> "other", s |-> ZeroSession]
    ELSE IF path \in DOMAIN dir
    THEN IF ds = "missing" \/ ~dir[path].exists THEN [err |-> "notexist", s |-> ZeroSession]
         ELSE IF ~dir[path].ok THEN [err |-> "parse", s |-> ZeroSession]
         ELSE [err |-> "nil", s |-> dir[path].s]
    ELSE IF path \notin {e.path : e \in strays} THEN [err |-> "notexist", s |-> ZeroSession]
    ELSE IF path = ArchivePath THEN [err |-> "isdir", s |-> ZeroSession]
    ELSE [err |-> "nil", s |-> BackupSession]

ForEachSessionFile_anyEntry(ds, dir) ==
    LET rd == ReadDir(ds, dir)
    IN  [err |-> IF rd.err = "notexist" THEN "nil" ELSE rd.err,
         visited |-> {e.path : e \in {x \in rd.entries : LoadFile(ds, dir, x.path).err = "nil"}}]

\* session.ForEachSessionFile: the error it returns and the paths fn is called
\* on (every regular .json entry that parses).
ForEachSessionFile(ds, dir) ==
    LET rd == ReadDir(ds, dir)
    IN  [err |-> IF rd.err = "notexist" THEN "nil" ELSE rd.err,
         visited |-> {e.path : e \in {x \in rd.entries :
                                          /\ ~(x.isDir \/ x.ext # ".json")
                                          /\ LoadFile(ds, dir, x.path).err = "nil"}}]

\* session.LoadAll: the error, and the records in directory order (nil when
\* nothing was appended).
LoadAll(ds, dir) ==
    LET r == ForEachSessionFile(ds, dir)
        paths == SelectSeq(DirOrder, LAMBDA q : q \in r.visited)
    IN  [err |-> r.err,
         sessions |-> [i \in 1 .. Len(paths) |-> LoadFile(ds, dir, paths[i]).s]]

Remove_noop(dir, path) == dir

\* os.Remove of one path (best effort).
Remove(dir, path) == [dir EXCEPT ![path] = NoFile]

\* ---------------------------------------------------------- internal/hook
mapEvent_stopWorking(event, toolDetail, notifType, title, message) ==
    CASE event = EventSessionStart -> [status |-> StatusStarting, detail |-> "Session started"]
      [] event = EventUserPromptSubmit -> [status |-> StatusWorking, detail |-> "Processing prompt..."]
      [] event = EventPreToolUse -> [status |-> StatusWorking, detail |-> toolDetail]
      [] event = EventPostToolUse -> [status |-> StatusWorking, detail |-> toolDetail]
      [] event = EventNotification -> [status |-> StatusWaiting, detail |-> "Awaiting response"]
      [] event = EventStop -> [status |-> StatusWorking, detail |-> "Finished responding"]
      [] OTHER -> [status |-> "", detail |-> ""]

mapEvent_defaultWorking(event, toolDetail, notifType, title, message) ==
    CASE event = EventSessionStart -> [status |-> StatusStarting, detail |-> "Session started"]
      [] event = EventUserPromptSubmit -> [status |-> StatusWorking, detail |-> "Processing prompt..."]
      [] event = EventPreToolUse -> [status |-> StatusWorking, detail |-> toolDetail]
      [] event = EventPostToolUse -> [status |-> StatusWorking, detail |-> toolDetail]
      [] event = EventNotification -> [status |-> StatusWaiting, detail |-> "Awaiting response"]
      [] event = EventStop -> [status |-> StatusIdle, detail |-> "Finished responding"]
      [] OTHER -> [status |-> StatusWorking, detail |-> ""]

mapEvent_stopEnded(event, toolDetail, notifType, title, message) ==
    CASE event = EventSessionStart -> [status |-> StatusStarting, detail |-> "Session started"]
      [] event = EventUserPromptSubmit -> [status |-> StatusWorking, detail |-> "Processing prompt..."]
      [] event = EventPreToolUse -> [status |-> StatusWorking, detail |-> toolDetail]
      [] event = EventPostToolUse -> [status |-> StatusWorking, detail |-> toolDetail]
      [] event = EventNotification -> [status |-> StatusWaiting, detail |-> "Awaiting response"]
      [] event = EventStop -> [status |-> StatusEnded, detail |-> "Finished responding"]
      [] OTHER -> [status |-> "", detail |-> ""]

mapEvent_startWorking(event, toolDetail, notifType, title, message) ==
    CASE event = EventSessionStart -> [status |-> StatusWorking, detail |-> "Session started"]
      [] event = EventUserPromptSubmit -> [status |-> StatusWorking, detail |-> "Processing prompt..."]
      [] event = EventPreToolUse -> [status |-> StatusWorking, detail |-> toolDetail]
      [] event = EventPostToolUse -> [status |-> StatusWorking, detail |-> toolDetail]
      [] event = EventNotification -> [status |-> StatusWaiting, detail |-> "Awaiting response"]
      [] event = EventStop -> [status |-> StatusIdle, detail |-> "Finished responding"]
      [] OTHER -> [status |-> "", detail |-> ""]

notificationDetail(notifType, title, message) ==
    IF title # "" THEN title
    ELSE IF message # "" THEN message
    ELSE "Awaiting response"

mapEvent_promptKeepsDetail(event, toolDetail, notifType, title, message) ==
    CASE event = EventSessionStart -> [status |-> StatusStarting, detail |-> "Session started"]
      [] event = EventUserPromptSubmit -> [status |-> StatusWorking, detail |-> toolDetail]
      [] event = EventPreToolUse -> [status |-> StatusWorking, detail |-> toolDetail]
      [] event = EventPostToolUse -> [status |-> StatusWorking, detail |-> toolDetail]
      [] event = EventNotification ->
            [status |-> StatusWaiting, detail |-> notificationDetail(notifType, title, message)]
      [] event = EventStop -> [status |-> StatusIdle, detail |-> "Finished responding"]
      [] OTHER -> [status |-> "", detail |-> ""]

mapEvent(event, toolDetail, notifType, title, message) ==
    CASE event = EventSessionStart -> [status |-> StatusStarting, detail |-> "Session started"]
      [] event = EventUserPromptSubmit -> [status |-> StatusWorking, detail |-> "Processing prompt..."]
      [] event = EventPreToolUse -> [status |-> StatusWorking, detail |-> toolDetail]
      [] event = EventPostToolUse -> [status |-> StatusWorking, detail |-> toolDetail]
      [] event = EventNotification ->
            [status |-> StatusWaiting, detail |-> notificationDetail(notifType, title, message)]
      [] event = EventStop -> [status |-> StatusIdle, detail |-> "Finished responding"]
      [] OTHER -> [status |-> "", detail |-> ""]

\* filepath.Base of a non-empty path: its last element.
Base(fp) == fp[Len(fp)]

\* buildToolDetail, from the event, the tool name and the fields of tool_input.
buildToolDetail(event, toolName, toolInput) ==
    IF toolName = "" THEN ""
    ELSE IF event = EventPostToolUse THEN "Finished " \o toolName \o ", continuing..."
    ELSE CASE toolName = "Bash" ->
                LET cmd == IF Len(toolInput.command) > MaxCmdLen
                           THEN SubSeq(toolInput.command, 1, MaxCmdLen)
                           ELSE toolInput.command
                IN  IF cmd # "" THEN "Bash: " \o cmd ELSE "Bash"
           [] toolName \in {"Edit", "Write", "Read"} ->
                IF toolInput.file_path # <<>>
                THEN toolName \o " " \o Base(toolInput.file_path) ELSE toolName
           [] toolName = "Glob" ->
                IF toolInput.pattern # "" THEN "Glob " \o toolInput.pattern ELSE "Glob"
           [] toolName = "Grep" ->
                IF toolInput.pattern # "" THEN "Grep " \o toolInput.pattern ELSE "Grep"
           [] toolName = "Task" ->
                IF toolInput.description # "" THEN "Task: " \o toolInput.description
                ELSE "Task"
           [] OTHER -> toolName

\* loadExistingSession: the zero value when the file is missing or corrupt.
loadExistingSession(ds, dir, path) ==
    LET r == LoadFile(ds, dir, path)
    IN  IF r.err # "nil" THEN ZeroSession ELSE r.s

\* ps.FindProcess on the platform the hook runs on: "error", or the process
\* ("alive"), or no process ("dead").
FindProcess(goos, pid, errs) ==
    IF pid \in errs THEN "error"
    ELSE IF <<goos, pid>> \in procs THEN "alive"
    ELSE "dead"

\* cleanupSamePID without its guard: a pid of 0 matches the files that record
\* no pid.
cleanupSamePID_matchesUnknown(ds, dir, currentSessionID, currentPID, goos) ==
    [f \in DOMAIN dir |->
        IF /\ f \in ForEachSessionFile(ds, dir).visited
           /\ dir[f].s.session_id # currentSessionID
           /\ dir[f].s.pid = currentPID
           /\ (dir[f].s.os = "" \/ dir[f].s.os = goos)
        THEN NoFile ELSE dir[f]]

cleanupSamePID_noop(ds, dir, currentSessionID, currentPID, goos) == dir

\* cleanupSamePID: the directory after it.
cleanupSamePID(ds, dir, currentSessionID, currentPID, goos) ==
    IF currentPID <= 0 THEN dir
    ELSE [f \in DOMAIN dir |->
            IF /\ f \in ForEachSessionFile(ds, dir).visited
               /\ dir[f].s.session_id # currentSessionID
               /\ dir[f].s.pid = currentPID
               /\ (dir[f].s.os = "" \/ dir[f].s.os = goos)
            THEN NoFile ELSE dir[f]]

cleanupDead_taggedOnly(ds, dir, goos, find) ==
    [err |-> ForEachSessionFile(ds, dir).err,
     dir |-> [f \in DOMAIN dir |->
                IF /\ f \in ForEachSessionFile(ds, dir).visited
                   /\ dir[f].s.pid > 0
                   /\ dir[f].s.os = goos
                   /\ find[dir[f].s.pid] = "dead"
                THEN NoFile ELSE dir[f]]]

cleanupDead_anyOS(ds, dir, goos, find) ==
    [err |-> ForEachSessionFile(ds, dir).err,
     dir |-> [f \in DOMAIN dir |->
                IF /\ f \in ForEachSessionFile(ds, dir).visited
                   /\ dir[f].s.pid > 0
                   /\ find[dir[f].s.pid] = "dead"
                THEN NoFile ELSE dir[f]]]

\* cleanupDead: the error it returns and the directory after it.  find is the
\* result of ps.FindProcess for each pid.
cleanupDead(ds, dir, goos, find) ==
    [err |-> ForEachSessionFile(ds, dir).err,
     dir |-> [f \in DOMAIN dir |->
                IF /\ f \in ForEachSessionFile(ds, dir).visited
                   /\ ~(dir[f].s.pid <= 0)
                   /\ ~(dir[f].s.os # "" /\ dir[f].s.os # goos)
                   /\ find[dir[f].s.pid] = "dead"
                THEN NoFile ELSE dir[f]]]

skipNotification_never(input) == FALSE

\* run: the test that skips a notification that asks nothing of the user.
skipNotification(input) ==
    /\ input.hook_event_name = EventNotification
    /\ input.notification_type # NotifPermissionPrompt
    /\ input.notification_type # NotifElicitationDialog

\* run: status and detail of the input.
eventStatus(input) ==
    mapEvent(input.hook_event_name,
             buildToolDetail(input.hook_event_name, input.tool_name, input),
             input.notification_type, input.title, input.message)

\* A record whose pid is the lookup result on every event.
buildSession_pidFromLookup(input, existing, pidres, ti, goos, t) ==
    [session_id |-> input.session_id,
     project |-> input.cwd,
     status |-> eventStatus(input).status,
     detail |-> eventStatus(input).detail,
     last_prompt |-> IF input.hook_event_name = EventUserPromptSubmit
                     THEN input.prompt ELSE existing.last_prompt,
     notification_type |-> IF input.notification_type # ""
                           THEN input.notification_type ELSE NilString,
     last_activity |-> t,
     tmux_pane |-> ti.tmuxPane,
     summary |-> IF ti.summary = "" /\ input.hook_event_name # EventSessionStart
                 THEN existing.summary ELSE ti.summary,
     runtime_id |-> IF ti.runtimeID = "" /\ input.hook_event_name # EventSessionStart
                    THEN existing.runtime_id ELSE ti.runtimeID,
     terminals |-> <<>>,
     pid |-> pidres,
     os |-> goos]

\* run: the record built from the input, the existing record, the pid lookup,
\* the terminal lookup and the clock.
buildSession(input, existing, pidres, ti, goos, t) ==
    [session_id |-> input.session_id,
     project |-> input.cwd,
     status |-> eventStatus(input).status,
     detail |-> eventStatus(input).detail,
     last_prompt |-> IF input.hook_event_name = EventUserPromptSubmit
                     THEN input.prompt ELSE existing.last_prompt,
     notification_type |-> IF input.notification_type # ""
                           THEN input.notification_type ELSE NilString,
     last_activity |-> t,
     tmux_pane |-> ti.tmuxPane,
     summary |-> IF ti.summary = "" /\ input.hook_event_name # EventSessionStart
                 THEN existing.summary ELSE ti.summary,
     runtime_id |-> IF ti.runtimeID = "" /\ input.hook_event_name # EventSessionStart
                    THEN existing.runtime_id ELSE ti.runtimeID,
     terminals |-> <<>>,
     pid |-> IF pidres = 0 /\ input.hook_event_name # EventSessionStart
             THEN existing.pid ELSE pidres,
     os |-> goos]

\* ------------------------------------------------------- internal/monitor
CheckPIDLiveness_noPidCheck(sessions, find) ==
    [i \in DOMAIN sessions |->
        IF sessions[i].pid <= 0
        THEN [sessions[i] EXCEPT !.status = "exited", !.detail = "Process ended"]
        ELSE IF find[sessions[i].pid] = "error" THEN sessions[i]
        ELSE IF find[sessions[i].pid] = "dead"
        THEN [sessions[i] EXCEPT !.status = "exited", !.detail = "Process ended"]
        ELSE sessions[i]]

CheckPIDLiveness_failClosed(sessions, find) ==
    [i \in DOMAIN sessions |->
        IF sessions[i].pid <= 0 THEN sessions[i]
        ELSE IF find[sessions[i].pid] \in {"dead", "error"}
        THEN [sessions[i] EXCEPT !.status = "exited", !.detail = "Process ended"]
        ELSE sessions[i]]

CheckPIDLiveness_statusOnly(sessions, find) ==
    [i \in DOMAIN sessions |->
        IF sessions[i].pid <= 0 THEN sessions[i]
        ELSE IF find[sessions[i].pid] = "error" THEN sessions[i]
        ELSE IF find[sessions[i].pid] = "dead"
        THEN [sessions[i] EXCEPT !.status = "exited"]
        ELSE sessions[i]]

\* monitor.CheckPIDLiveness: the list after it.  find is the result of
\* ps.FindProcess for each pid; a pid <= 0 is not looked up.
CheckPIDLiveness(sessions, find) ==
    [i \in DOMAIN sessions |->
        IF sessions[i].pid <= 0 THEN sessions[i]
        ELSE IF find[sessions[i].pid] = "error" THEN sessions[i]
        ELSE IF find[sessions[i].pid] = "dead"
        THEN [sessions[i] EXCEPT !.status = "exited", !.detail = "Process ended"]
        ELSE sessions[i]]

\* ------------------------------------------------------ internal/switcher
\* The registered backend kinds.
backends == {"wt", "tmux"}

\* Switch with the check for an empty list left out: the loop runs over no
\* descriptor and nil is returned.
Switch_emptyIsNil(sw, selectOk) ==
    IF sw.i = Len(sw.terms) THEN [sw EXCEPT !.running = FALSE, !.ret = "nil"]
    ELSE IF sw.terms[sw.i + 1].backend \notin backends THEN [sw EXCEPT !.i = @ + 1]
    ELSE IF selectOk THEN [sw EXCEPT !.i = @ + 1, !.calls = Append(@, sw.i + 1)]
    ELSE [sw EXCEPT !.i = @ + 1, !.calls = Append(@, sw.i + 1),
                    !.running = FALSE, !.ret = "select error"]

\* Switch that returns at a descriptor of an unregistered backend.
Switch_stopAtUnknown(sw, selectOk) ==
    IF Len(sw.terms) = 0
    THEN [sw EXCEPT !.running = FALSE, !.ret = "no switching info available"]
    ELSE IF sw.i = Len(sw.terms) THEN [sw EXCEPT !.running = FALSE, !.ret = "nil"]
    ELSE IF sw.terms[sw.i + 1].backend \notin backends
    THEN [sw EXCEPT !.i = @ + 1, !.running = FALSE, !.ret = "nil"]
    ELSE IF selectOk THEN [sw EXCEPT !.i = @ + 1, !.calls = Append(@, sw.i + 1)]
    ELSE [sw EXCEPT !.i = @ + 1, !.calls = Append(@, sw.i + 1),
                    !.running = FALSE, !.ret = "select error"]

\* Switch, one step of it: the test for an empty list, one turn of the loop,
\* or the return after the loop; selectOk is what Select answers.
Switch(sw, selectOk) ==
    IF Len(sw.terms) = 0
    THEN [sw EXCEPT !.running = FALSE, !.ret = "no switching info available"]
    ELSE IF sw.i = Len(sw.terms) THEN [sw EXCEPT !.running = FALSE, !.ret = "nil"]
    ELSE IF sw.terms[sw.i + 1].backend \notin backends THEN [sw EXCEPT !.i = @ + 1]
    ELSE IF selectOk THEN [sw EXCEPT !.i = @ + 1, !.calls = Append(@, sw.i + 1)]
    ELSE [sw EXCEPT !.i = @ + 1, !.calls = Append(@, sw.i + 1),
                    !.running = FALSE, !.ret = "select error"]

\* ---------------------------------------------- internal/monitor: the view
\* Text is a string as in the code.  The runes outside ASCII are written with
\* ASCII stand-ins of the same display width: "+-" and "L-" for the two tree
\* connectors, "|" for the vertical bar, "~" for the ellipsis, "." ":" and
\* "-" for the rounded border, one letter for each status glyph.  Colour,
\* bold and faint do not change the text; the ones that depend on the state
\* (hover, flash, the help toggle) are returned beside the text.
ConnMid == "+-"
ConnLast == "L-"
Bar == "|"
Ellipsis == "~"

flashDuration == 2

\* bubbles/spinner: the frames the spinner cycles through.
SpinnerFrames == <<"-", "=">>

Min(a, b) == IF a <= b THEN a ELSE b
Max(a, b) == IF a >= b THEN a ELSE b

\* strings.Repeat, by halving.
RECURSIVE Repeat(_, _)
Repeat(s, n) ==
    IF n <= 0 THEN ""
    ELSE LET half == Repeat(s, n \div 2)
         IN  half \o half \o (IF n % 2 = 1 THEN s ELSE "")

\* sub occurs in s at position i, counted from 1.
MatchAt(s, sub, i) == SubSeq(s, i, i + Len(sub) - 1) = sub

\* strings.Contains.
Contains(s, sub) == \E i \in 1 .. Len(s) - Len(sub) + 1 : MatchAt(s, sub, i)

\* strings.LastIndex, counted from 1; 0 when sub does not occur.
LastIndexOf(s, sub) ==
    IF ~Contains(s, sub) THEN 0
    ELSE CHOOSE i \in 1 .. Len(s) - Len(sub) + 1 :
            /\ MatchAt(s, sub, i)
            /\ \A j \in i + 1 .. Len(s) - Len(sub) + 1 : ~MatchAt(s, sub, j)

\* strings.Index, counted from 1; 0 when sub does not occur.
IndexOf(s, sub) ==
    IF ~Contains(s, sub) THEN 0
    ELSE CHOOSE i \in 1 .. Len(s) - Len(sub) + 1 :
            /\ MatchAt(s, sub, i)
            /\ \A j \in 1 .. i - 1 : ~MatchAt(s, sub, j)

\* strings.Split: s is cut at the occurrences of sep from left to right;
\* hits are the positions after from where sep occurs.
RECURSIVE Cut(_, _, _, _)
Cut(s, sep, from, hits) ==
    IF hits = {} THEN <<SubSeq(s, from, Len(s))>>
    ELSE LET i == CHOOSE h \in hits : \A g \in hits : h <= g
         IN  <<SubSeq(s, from, i - 1)>>
                \o Cut(s, sep, i + Len(sep), {h \in hits : h >= i + Len(sep)})

Split(s, sep) ==
    Cut(s, sep, 1, {i \in 1 .. Len(s) - Len(sep) + 1 : MatchAt(s, sep, i)})

RECURSIVE Join(_, _)
Join(parts, sep) ==
    IF parts = <<>> THEN ""
    ELSE IF Len(parts) = 1 THEN parts[1]
    ELSE parts[1] \o sep \o Join(Tail(parts), sep)

\* lipgloss.Width: the width of the widest line.
Width(s) ==
    IF ~Contains(s, "\n") THEN Len(s)
    ELSE LET ls == Split(s, "\n")
         IN  CHOOSE w \in {Len(ls[i]) : i \in DOMAIN ls} :
                \A i \in DOMAIN ls : Len(ls[i]) <= w

\* lipgloss Style.Render of a style without width, as far as the text goes:
\* the lines of a text of several lines are filled to the widest of them.
styleRender(s) ==
    IF ~Contains(s, "\n") THEN s
    ELSE LET ls == Split(s, "\n")
         IN  Join([i \in DOMAIN ls |-> ls[i] \o Repeat(" ", Width(s) - Len(ls[i]))],
                  "\n")

padRight(s, width) ==
    LET visible == Width(s)
    IN  IF visible >= width THEN s ELSE s \o Repeat(" ", width - visible)

\* The order of the strings that the model sorts: project paths and session
\* ids.
StringOrder == <<"", "/home/u/api", "/home/u/web", "A", "B", "C">>
Rank(s) == CHOOSE i \in DOMAIN StringOrder : StringOrder[i] = s

\* The indices idx of a list, sorted by the rank of key[i] and then by
\* position.
RECURSIVE SortIndices(_, _)
SortIndices(idx, key) ==
    IF idx = {} THEN <<>>
    ELSE LET m == CHOOSE i \in idx :
                     \A j \in idx : \/ Rank(key[i]) < Rank(key[j])
                                    \/ (Rank(key[i]) = Rank(key[j]) /\ i <= j)
         IN  <<m>> \o SortIndices(idx \ {m}, key)

\* A grouping that leaves the sessions of a group in the order of the input.
GroupByProject_inputOrder(sessions) ==
    LET firsts == {i \in DOMAIN sessions :
                      \A j \in DOMAIN sessions :
                         sessions[j].project = sessions[i].project => i <= j}
        order == SortIndices(firsts, [i \in DOMAIN sessions |-> sessions[i].project])
    IN  [g \in DOMAIN order |->
           LET members == {i \in DOMAIN sessions :
                              sessions[i].project = sessions[order[g]].project}
               sorted == SortIndices(members, [i \in DOMAIN sessions |-> ""])
           IN  [project |-> sessions[order[g]].project,
                sessions |-> [k \in DOMAIN sorted |-> sessions[sorted[k]]]]]

\* session.GroupByProject: the groups by project path, the sessions of a
\* group by session id.
GroupByProject(sessions) ==
    LET firsts == {i \in DOMAIN sessions :
                      \A j \in DOMAIN sessions :
                         sessions[j].project = sessions[i].project => i <= j}
        order == SortIndices(firsts, [i \in DOMAIN sessions |-> sessions[i].project])
    IN  [g \in DOMAIN order |->
           LET members == {i \in DOMAIN sessions :
                              sessions[i].project = sessions[order[g]].project}
               sorted == SortIndices(members,
                                     [i \in DOMAIN sessions |-> sessions[i].session_id])
           IN  [project |-> sessions[order[g]].project,
                sessions |-> [k \in DOMAIN sorted |-> sessions[sorted[k]]]]]

\* The lists of a list, appended in order.
RECURSIVE AppendAll(_)
AppendAll(lists) ==
    IF lists = <<>> THEN <<>> ELSE Head(lists) \o AppendAll(Tail(lists))

\* The sessions in render order.
RECURSIVE Flatten(_)
Flatten(groups) ==
    IF groups = <<>> THEN <<>> ELSE Head(groups).sessions \o Flatten(Tail(groups))

\* session.TimeSince at wall-clock time t; the empty timestamp does not parse.
TimeSince(timestamp, t) ==
    LET d == t - timestamp
    IN  IF timestamp = 0 THEN "?"
        ELSE IF d < 1 THEN "now"
        ELSE IF d < 60 THEN ToString(d) \o "s ago"
        ELSE IF d < 3600 THEN ToString(d \div 60) \o "m ago"
        ELSE IF d < 86400 THEN ToString(d \div 3600) \o "h ago"
        ELSE ToString(d \div 86400) \o "d ago"

\* flashPhase, the times in seconds; until 0 is the zero time.
flashPhase(t, until) ==
    IF until = 0 \/ ~(t < until) THEN 0
    ELSE IF (((flashDuration - (until - t)) * 1000) \div 150) % 2 = 0 THEN 1
    ELSE 2

statusDisplay(status, sp) ==
    CASE status = StatusWorking -> [indicator |-> SpinnerFrames[sp], label |-> "Working"]
      [] status = StatusWaiting -> [indicator |-> "*", label |-> "Waiting"]
      [] status = StatusIdle -> [indicator |-> "o", label |-> "Idle"]
      [] status = StatusStarting -> [indicator |-> "c", label |-> "Started"]
      [] status = StatusExited -> [indicator |-> "x", label |-> "Exited"]
      [] status = StatusEnded -> [indicator |-> "-", label |-> "Ended"]
      [] OTHER -> [indicator |-> "?", label |-> status]

\* newSessionRow; t is the time.Now() it reads.
newSessionRow(s, isLast, sp, flashUntil, showSummary, debug, t) ==
    LET summary == IF s.summary = "Claude Code" THEN "" ELSE s.summary
        fromSummary == IF showSummary THEN summary # "" ELSE s.last_prompt = ""
        prompt == IF showSummary
                  THEN (IF summary # "" THEN summary ELSE s.last_prompt)
                  ELSE (IF s.last_prompt # "" THEN s.last_prompt ELSE summary)
        sd == statusDisplay(s.status, sp)
    IN  [sessionID |-> s.session_id,
         connector |-> IF isLast THEN ConnLast ELSE ConnMid,
         shortID |-> IF Len(s.session_id) > 8 THEN SubSeq(s.session_id, 1, 8)
                     ELSE s.session_id,
         pid |-> s.pid,
         status |-> sd.indicator \o " " \o sd.label,
         detail |-> IF Len(s.detail) > 40 THEN SubSeq(s.detail, 1, 38) \o " " \o Ellipsis
                    ELSE s.detail,
         elapsed |-> TimeSince(s.last_activity, t),
         rawLastActivity |-> s.last_activity,
         prompt |-> prompt,
         isQuoted |-> ~fromSummary /\ prompt # "",
         isLast |-> isLast,
         flashPhase |-> flashPhase(t, flashUntil[s.session_id]),
         debug |-> debug]

\* sessionRow.render: line 1 then line 2, each ended by a newline, and the
\* styles that depend on the state; t is the time.Now() TimeSince reads.
sessionRow_render(r, w, hovered, t) ==
    LET suffixLen == IF r.debug
                     THEN 2 + Width(r.shortID) + 1
                            + (IF r.pid > 0 THEN 1 + Len(ToString(r.pid)) ELSE 0)
                     ELSE 0
        available == Max(0, w.contentWidth - w.conn - 1 - 8
                               - (IF r.isQuoted THEN 2 ELSE 0) - suffixLen)
        cut == IF w.contentWidth > 0 /\ r.prompt # "" /\ Len(r.prompt) > available
               THEN (IF available > 2
                     THEN SubSeq(r.prompt, 1, available - 2) \o Ellipsis
                     ELSE SubSeq(r.prompt, 1, available))
               ELSE r.prompt
        prompt == IF r.isQuoted /\ cut # "" THEN "\"" \o cut \o "\"" ELSE cut
        idPart == IF r.pid > 0 THEN r.shortID \o ":" \o ToString(r.pid) ELSE r.shortID
        line1 == IF r.debug
                 THEN (IF prompt # ""
                       THEN padRight(r.connector, w.conn) \o " " \o styleRender(prompt)
                               \o " " \o "(" \o idPart \o ")"
                       ELSE padRight(r.connector, w.conn) \o " " \o idPart)
                 ELSE (IF prompt # ""
                       THEN padRight(r.connector, w.conn) \o " " \o styleRender(prompt)
                       ELSE padRight(r.connector, w.conn) \o " " \o Ellipsis)
        elapsed == IF r.flashPhase \in {1, 2} THEN TimeSince(r.rawLastActivity, t)
                   ELSE r.elapsed
        indent == IF r.isLast THEN "   " ELSE Bar \o "  "
        leftPart == indent \o padRight(r.status, w.status) \o "  " \o r.detail
        targetWidth == w.contentWidth - Width(elapsed)
        line2 == (IF targetWidth > Width(leftPart) + 2
                  THEN leftPart \o Repeat(" ", targetWidth - Width(leftPart))
                  ELSE leftPart \o "  ") \o elapsed
    IN  [text |-> line1 \o "\n" \o line2 \o "\n",
         style |-> [sessionID |-> r.sessionID, bold |-> hovered,
                    red |-> r.flashPhase = 1]]

\* buildRows: the rows of one group.
buildRows(sessions, sp, flashUntil, showSummary, debug, t) ==
    [i \in DOMAIN sessions |->
        newSessionRow(sessions[i], i = Len(sessions), sp, flashUntil,
                      showSummary, debug, t)]

\* computeWidths, over the rows of all groups.
computeWidths(allRows) ==
    LET conns == {Width(allRows[i].connector) : i \in DOMAIN allRows} \cup {0}
        stats == {Width(allRows[i].status) : i \in DOMAIN allRows} \cup {12}
    IN  [conn |-> CHOOSE n \in conns : \A m \in conns : m <= n,
         status |-> CHOOSE n \in stats : \A m \in stats : m <= n,
         contentWidth |-> 0]

\* filepath.Base of a path that does not end in a separator.
filepathBase(path) ==
    IF path = "" THEN "."
    ELSE IF LastIndexOf(path, "/") = 0 THEN path
    ELSE SubSeq(path, LastIndexOf(path, "/") + 1, Len(path))

baseName(path) ==
    LET name == filepathBase(path)
        i == LastIndexOf(name, "\\")
        cutName == IF i > 0 THEN SubSeq(name, i + 1, Len(name)) ELSE name
    IN  IF cutName = "" THEN path ELSE cutName

RECURSIVE ConcatRows(_)
ConcatRows(texts) == IF texts = <<>> THEN "" ELSE Head(texts) \o ConcatRows(Tail(texts))

\* renderProjectGroup: the title, the bar, the rows.
renderProjectGroup(g, rows, w, hoverSID, t) ==
    baseName(g.project) \o " " \o g.project \o "\n" \o Bar \o "\n"
       \o ConcatRows([i \in DOMAIN rows |->
                        sessionRow_render(rows[i], w, rows[i].sessionID = hoverSID, t).text])

\* projectBoxStyle.Width(boxWidth).Render(box): a blank line of margin, the
\* rounded border around the lines of box, one column of padding after the
\* left border.  The lines of the model are no wider than the box; the
\* spaces that fill a line up to the right border, and that border, are left
\* out.
boxRender(box, boxWidth) ==
    LET ls == Split(box, "\n")
    IN  "\n" \o "." \o Repeat("-", boxWidth) \o "." \o "\n"
          \o ConcatRows([i \in DOMAIN ls |-> Bar \o " " \o ls[i] \o "\n"])
          \o ":" \o Repeat("-", boxWidth) \o ":"

\* renderHelp, below its margin line; the toggle only changes which word is
\* bold.
renderHelp(showSummary) == "\n" \o "q quit . p prompt/title . click to switch tab"

Count(sessions, status) ==
    Cardinality({i \in DOMAIN sessions : sessions[i].status = status})

\* renderSummary, below the margin line of summaryBarStyle.
renderSummary(sessions) ==
    LET part(status, glyph) ==
           IF Count(sessions, status) > 0
           THEN <<glyph \o " " \o ToString(Count(sessions, status)) \o " " \o status>>
           ELSE <<>>
    IN  Join(part(StatusWorking, "@") \o part(StatusWaiting, "*") \o part(StatusIdle, "o")
                \o part(StatusStarting, "c") \o part(StatusExited, "x"), "  ")

\* renderView without the case of the empty list: the header, the summary
\* bar and the help line are rendered around no box.
renderView_noEmptyState(sessions, sp, width, flashUntil, statusMsg, interactive, showSummary, debug, hoverSID, t) ==
    LET groups == GroupByProject(sessions)
    IN  [text |-> "ccmonitor" \o "  " \o ToString(Len(groups)) \o " projects, "
                     \o ToString(Len(sessions)) \o " sessions" \o "\n"
                     \o "\n" \o renderSummary(sessions) \o "\n"
                     \o (IF interactive
                         THEN (IF statusMsg # "" THEN statusMsg \o "\n" ELSE "")
                                 \o renderHelp(showSummary)
                         ELSE ""),
         rows |-> <<>>,
         help |-> interactive /\ showSummary]

\* renderView; t is the time.Now() that newSessionRow reads.
renderView(sessions, sp, width, flashUntil, statusMsg, interactive, showSummary, debug, hoverSID, t) ==
    LET wd == IF width = 0 THEN 80 ELSE width
        groups == GroupByProject(sessions)
        boxWidth == wd - 4
        groupRows == [i \in DOMAIN groups |->
                         buildRows(groups[i].sessions, sp, flashUntil, showSummary,
                                   debug, t)]
        allRows == AppendAll(groupRows)
        w == [computeWidths(allRows) EXCEPT !.contentWidth = boxWidth - 2]
        boxes == [i \in DOMAIN groups |->
                     boxRender(renderProjectGroup(groups[i], groupRows[i], w,
                                                  hoverSID, t), boxWidth) \o "\n"]
        ordered == Flatten(groups)
    IN  IF Len(sessions) = 0
        THEN [text |-> "ccmonitor" \o "\n\n" \o "No active sessions."
                          \o (IF interactive THEN "\n" \o renderHelp(showSummary) ELSE ""),
              rows |-> <<>>,
              help |-> interactive /\ showSummary]
        ELSE [text |-> "ccmonitor" \o "  " \o ToString(Len(groups)) \o " projects, "
                          \o ToString(Len(sessions)) \o " sessions" \o "\n"
                          \o "\n" \o renderSummary(sessions) \o "\n"
                          \o ConcatRows(boxes)
                          \o (IF interactive
                              THEN (IF statusMsg # "" THEN statusMsg \o "\n" ELSE "")
                                      \o renderHelp(showSummary)
                              ELSE ""),
              rows |-> [i \in DOMAIN ordered |->
                          [sessionID |-> ordered[i].session_id,
                           bold |-> ordered[i].session_id = hoverSID,
                           red |-> flashPhase(t, flashUntil[ordered[i].session_id]) = 1]],
              help |-> interactive /\ showSummary]

\* RenderOnce: the spinner is new and there is no flash table.
RenderOnce(sessions, width, debug, t) ==
    renderView(sessions, 1, width, [s \in SessionIDs |-> 0], "", FALSE, TRUE, debug, "", t)

render(sessions, sp, width, flashUntil, statusMsg, showSummary, debug, hoverSID, t) ==
    renderView(sessions, sp, width, flashUntil, statusMsg, TRUE, showSummary, debug,
               hoverSID, t)

\* buildClickMap: the scan from line y (counted from 0) on, with sessionIdx
\* sessions matched so far.
RECURSIVE clickScan(_, _, _, _, _)
clickScan(lines, ordered, y, sessionIdx, clickMap) ==
    IF y >= Len(lines) \/ sessionIdx >= Len(ordered) THEN clickMap
    ELSE IF Contains(lines[y + 1], ConnMid) \/ Contains(lines[y + 1], ConnLast)
    THEN LET sid == ordered[sessionIdx + 1].session_id
             ys == IF y + 1 < Len(lines) THEN {y, y + 1} ELSE {y}
         IN  clickScan(lines, ordered, y + 1, sessionIdx + 1,
                       [k \in DOMAIN clickMap \cup ys |->
                           IF k \in ys THEN sid ELSE clickMap[k]])
    ELSE clickScan(lines, ordered, y + 1, sessionIdx, clickMap)

\* buildClickMap: from line numbers (counted from 0) to session ids.
buildClickMap(sessions, view) ==
    IF Len(sessions) = 0 THEN <<>>
    ELSE clickScan(Split(view, "\n"), Flatten(GroupByProject(sessions)), 0, 0, <<>>)

\* Update, case tickMsg, its loop over the sessions from position i on: a
\* session whose status or detail changed since it was last seen flashes.
RECURSIVE trackStates(_, _, _, _, _, _)
trackStates(sessions, i, lastState, flashUntil, newFlash, t) ==
    IF i > Len(sessions)
    THEN [lastState |-> lastState, flashUntil |-> flashUntil, newFlash |-> newFlash]
    ELSE LET s == sessions[i]
             state == s.status \o "|" \o s.detail
             changed == lastState[s.session_id] # NilString
                           /\ lastState[s.session_id] # state
         IN  trackStates(sessions, i + 1,
                         [lastState EXCEPT ![s.session_id] = state],
                         IF changed
                         THEN [flashUntil EXCEPT ![s.session_id] = t + flashDuration]
                         ELSE flashUntil,
                         newFlash \/ changed, t)

\* Model.View at time t, and the status text it passes to render.
View_status(m, t) ==
    IF m.statusMsg # "" /\ t < m.statusUntil THEN m.statusMsg ELSE ""

View(m, t) ==
    render(m.sessions, m.spinner, m.width, m.flashUntil, View_status(m, t),
           m.showSummary, m.debug, "", t)

\* ------------------------------------------------------- the hook inputs
UnknownEvent == "SomeFutureEvent"
EventInput(sid, ev) == [ZeroInput EXCEPT !.session_id = sid, !.hook_event_name = ev]

Prompts == {"fix bug", "add test"}
NotifTypes == {NotifPermissionPrompt, NotifElicitationDialog, "idle_prompt"}

PlainInputs(sids, evs) == {EventInput(sid, ev) : sid \in sids, ev \in evs}
PromptInputs(sids, prompts) ==
    {[EventInput(sid, EventUserPromptSubmit) EXCEPT !.prompt = p] : sid \in sids, p \in prompts}
ToolInputs(sids) ==
    {[EventInput(sid, ev) EXCEPT !.tool_name = "Bash", !.command = "ls -la"] :
        sid \in sids, ev \in {EventPreToolUse, EventPostToolUse}}
    \cup {[EventInput(sid, EventPreToolUse) EXCEPT
              !.tool_name = "Edit", !.file_path = <<"src", "main.go">>] : sid \in sids}
NotificationInputs(sids, titles) ==
    {[EventInput(sid, EventNotification) EXCEPT !.notification_type = n, !.title = t] :
        sid \in sids, n \in NotifTypes, t \in titles}

\* Every event name with its fields, for session B (the legacy record is the
\* other file of the directory).
StatusInputs ==
    PlainInputs({"B"}, {EventSessionStart, EventSessionEnd, EventStop, UnknownEvent})
        \cup PromptInputs({"B"}, Prompts) \cup ToolInputs({"B"})
        \cup NotificationInputs({"B"}, {"", "Allow Bash?"})

\* What the terminal lookup can answer: inside or outside a tmux pane, with
\* or without a Windows Terminal tab id.
TermInfos ==
    {[tmuxPane |-> p, summary |-> "", runtimeID |-> r] :
        p \in {"", "%1"}, r \in {"", "tab-1"}}

\* The events that write a record, for session B.
TerminalInputs ==
    PlainInputs({"B"}, {EventSessionStart, EventUserPromptSubmit, EventStop})

\* The events of a turn of session B, while the viewer watches.
ViewerInputs == PlainInputs({"B"}, {EventUserPromptSubmit, EventStop})

\* The events that drive the cleanup rules, for both sessions.
CleanupInputs ==
    PlainInputs(SessionIDs, {EventSessionStart, EventSessionEnd, EventStop})

\* The events of two overlapping invocations: the first carries session A's
\* prompt or its Stop, the second a Stop of either session.
RaceInputs(h) ==
    IF h = "h1"
    THEN PlainInputs({"A"}, {EventStop}) \cup PromptInputs({"A"}, {"fix bug"})
    ELSE PlainInputs(SessionIDs, {EventStop})

\* ------------------------------------------------------------ the state
Init ==
    /\ \/ dirState = "missing" /\ files = [f \in SessionIDs |-> NoFile]
       \/ /\ dirState = "ok"
          /\ files = [f \in SessionIDs |-> IF f = "A" THEN SessionFile(LegacySession) ELSE NoFile]
    /\ procs = Platforms \X Pids
    /\ now = 1
    /\ hook = [h \in Hooks |-> IdleHook]
    /\ lastSubmitted = [s \in SessionIDs |-> ""]
    /\ loadResult = [path |-> "", err |-> "none", writing |-> FALSE]
    /\ lastWritten = [s \in SessionIDs |-> IF files[s].ok THEN files[s].s ELSE ZeroSession]
    /\ strays = {}
    /\ viewer = NoViewer

\* The history variable forgets the prompt of a file that is gone.
Forget(newfiles) ==
    [s \in SessionIDs |-> IF newfiles[s].exists THEN lastSubmitted[s] ELSE ""]

\* The history of writes forgets a file that is gone.
ForgetWritten(newfiles) ==
    [s \in SessionIDs |-> IF newfiles[s].exists THEN lastWritten[s] ELSE ZeroSession]

\* run, after the sweep of a SessionStart and for every other event but
\* SessionEnd: return early or go on to read the existing record.
Dispatch(input) ==
    IF skipNotification(input) THEN "done"
    ELSE IF eventStatus(input).status = "" THEN "done"
    ELSE "load"

\* run with the sweep of a SessionStart left out.
HookBegin_startSkipsSweep(h, inputs, platforms) ==
    /\ hook[h].pc = "idle"
    /\ dirState # "unreadable"
    /\ \E input \in inputs, goos \in platforms :
          LET pc == IF input.hook_event_name = EventSessionEnd
                    THEN "sweep" ELSE Dispatch(input)
          IN  hook' = [hook EXCEPT ![h] =
                         [IdleHook EXCEPT !.pc = pc, !.input = input, !.goos = goos,
                                          !.ret = IF pc = "done" THEN "nil" ELSE "none"]]
    /\ dirState' = "ok"
    /\ UNCHANGED <<files, procs, now, lastSubmitted, loadResult,
                 lastWritten, strays, viewer>>

\* run up to its first file-system call: MkdirAll, read and decode stdin.
HookBegin(h, inputs, platforms) ==
    /\ hook[h].pc = "idle"
    /\ dirState # "unreadable"
    /\ \E input \in inputs, goos \in platforms :
          LET pc == IF input.hook_event_name \in {EventSessionEnd, EventSessionStart}
                    THEN "sweep" ELSE Dispatch(input)
          IN  hook' = [hook EXCEPT ![h] =
                         [IdleHook EXCEPT !.pc = pc, !.input = input, !.goos = goos,
                                          !.ret = IF pc = "done" THEN "nil" ELSE "none"]]
    /\ dirState' = "ok"
    /\ UNCHANGED <<files, procs, now, lastSubmitted, loadResult,
                 lastWritten, strays, viewer>>

\* run returns "parsing hook input": stdin is not JSON.
HookBadInput(h) ==
    /\ hook[h].pc = "idle"
    /\ dirState # "unreadable"
    /\ hook' = [hook EXCEPT ![h] = [IdleHook EXCEPT !.pc = "done", !.ret = "error"]]
    /\ dirState' = "ok"
    /\ UNCHANGED <<files, procs, now, lastSubmitted, loadResult,
                 lastWritten, strays, viewer>>

\* cleanupDead(dir), on SessionStart and SessionEnd.  ps.FindProcess is asked
\* about the pids the files record.
HookSweep(h) ==
    /\ hook[h].pc = "sweep"
    /\ \E errs \in SUBSET Pids :
          LET find == [p \in Pids |->
                          IF \E f \in SessionIDs : files[f].ok /\ files[f].s.pid = p
                          THEN FindProcess(hook[h].goos, p, errs) ELSE "none"]
              r == cleanupDead(dirState, files, hook[h].goos, find)
          IN  /\ files' = r.dir
              /\ lastSubmitted' = Forget(r.dir)
              /\ hook' = [hook EXCEPT ![h].find = find, ![h].sweepErr = r.err,
                            ![h].swept = {f \in SessionIDs : files[f].exists /\ ~r.dir[f].exists},
                            ![h].pc = IF hook[h].input.hook_event_name = EventSessionEnd
                                      THEN "remove" ELSE Dispatch(hook[h].input),
                            ![h].ret = IF hook[h].input.hook_event_name # EventSessionEnd
                                          /\ Dispatch(hook[h].input) = "done"
                                       THEN "nil" ELSE "none"]
    /\ lastWritten' = ForgetWritten(files')
    /\ UNCHANGED <<dirState, procs, now, loadResult, strays, viewer>>

\* SessionEnd: os.Remove(sessionFile); return nil.
HookRemoveOwn(h) ==
    /\ hook[h].pc = "remove"
    /\ files' = Remove(files, hook[h].input.session_id)
    /\ lastSubmitted' = Forget(files')
    /\ hook' = [hook EXCEPT ![h].pc = "done", ![h].ret = "nil"]
    /\ lastWritten' = ForgetWritten(files')
    /\ UNCHANGED <<dirState, procs, now, loadResult, strays, viewer>>

\* loadExistingSession, termInfoFn, pidFn, time.Now: the record to write.
HookLoad(h, pidresults, terminfos) ==
    /\ hook[h].pc = "load"
    /\ \E pidres \in pidresults, ti \in terminfos :
          LET existing == loadExistingSession(dirState, files, hook[h].input.session_id)
          IN  hook' = [hook EXCEPT ![h].pc = "samepid", ![h].ti = ti,
                         ![h].s = buildSession(hook[h].input, existing, pidres,
                                               ti, hook[h].goos, now)]
    /\ UNCHANGED <<dirState, files, procs, now, lastSubmitted,
                 loadResult, lastWritten, strays, viewer>>

\* cleanupSamePID(dir, input.SessionID, pid).
HookCleanupSamePID(h) ==
    /\ hook[h].pc = "samepid"
    /\ files' = cleanupSamePID(dirState, files, hook[h].input.session_id,
                               hook[h].s.pid, hook[h].goos)
    /\ lastSubmitted' = Forget(files')
    /\ hook' = [hook EXCEPT ![h].pc = "open",
                   ![h].dups = {f \in SessionIDs : files[f].exists /\ ~files'[f].exists}]
    /\ lastWritten' = ForgetWritten(files')
    /\ UNCHANGED <<dirState, procs, now, loadResult, strays, viewer>>

\* os.WriteFile, its open with O_CREATE|O_TRUNC: the file is empty from here
\* until the data is written.  It fails when the directory is gone.
HookWriteOpen(h) ==
    /\ hook[h].pc = "open"
    /\ IF dirState = "missing"
       THEN /\ hook' = [hook EXCEPT ![h].pc = "done", ![h].ret = "error"]
            /\ UNCHANGED files
       ELSE /\ hook' = [hook EXCEPT ![h].pc = "write"]
            /\ files' = [files EXCEPT ![hook[h].input.session_id] = TornFile]
    /\ UNCHANGED <<dirState, procs, now, lastSubmitted, loadResult,
                 lastWritten, strays, viewer>>

\* os.WriteFile, its write and close.  The data reaches the directory entry
\* unless the entry was unlinked after the open.
HookWriteData(h) ==
    /\ hook[h].pc = "write"
    /\ LET sid == hook[h].input.session_id
       IN  IF files[sid].exists
           THEN /\ files' = [files EXCEPT ![sid] = SessionFile(hook[h].s)]
                /\ lastSubmitted' =
                     [lastSubmitted EXCEPT ![sid] =
                        IF hook[h].input.hook_event_name = EventUserPromptSubmit
                        THEN hook[h].input.prompt ELSE @]
           ELSE UNCHANGED <<files, lastSubmitted>>
    /\ hook' = [hook EXCEPT ![h].pc = "done", ![h].ret = "nil"]
    /\ lastWritten' = IF files[hook[h].input.session_id].exists
                      THEN [lastWritten EXCEPT ![hook[h].input.session_id] = hook[h].s]
                      ELSE lastWritten
    /\ UNCHANGED <<dirState, procs, now, loadResult, strays, viewer>>

\* os.WriteFile fails after the truncation (disk full, process killed): the
\* file stays as the open left it.
HookWriteFail(h) ==
    /\ hook[h].pc = "write"
    /\ hook' = [hook EXCEPT ![h].pc = "done", ![h].ret = "error"]
    /\ lastSubmitted' = [lastSubmitted EXCEPT ![hook[h].input.session_id] = ""]
    /\ lastWritten' = [lastWritten EXCEPT ![hook[h].input.session_id] = ZeroSession]
    /\ UNCHANGED <<dirState, files, procs, now, loadResult, strays, viewer>>

\* The hook process exits.
HookExit(h) ==
    /\ hook[h].pc = "done"
    /\ hook' = [hook EXCEPT ![h] = IdleHook]
    /\ UNCHANGED <<dirState, files, procs, now, lastSubmitted,
                 loadResult, lastWritten, strays, viewer>>

\* ------------------------------------------------------- the environment
\* A second passes.
Tick ==
    /\ now < MaxTime
    /\ now' = now + 1
    /\ UNCHANGED <<dirState, files, procs, hook, lastSubmitted,
                 loadResult, lastWritten, strays, viewer>>

\* A Claude Code process ends.
ProcessExit(goos, pid) ==
    /\ <<goos, pid>> \in procs
    /\ procs' = procs \ {<<goos, pid>>}
    /\ UNCHANGED <<dirState, files, now, hook, lastSubmitted,
                 loadResult, lastWritten, strays, viewer>>

\* The sessions directory is deleted from outside.
RemoveDir ==
    /\ dirState = "ok"
    /\ dirState' = "missing"
    /\ files' = [f \in SessionIDs |-> NoFile]
    /\ strays' = {}
    /\ lastSubmitted' = Forget(files')
    /\ lastWritten' = ForgetWritten(files')
    /\ UNCHANGED <<procs, now, hook, loadResult, viewer>>

\* A reader (the viewer's LoadAll, another hook's scan) calls LoadFile.
ReaderLoadFile(path) ==
    /\ loadResult' =
         [path |-> path, err |-> LoadFile(dirState, files, path).err,
          writing |-> \E h \in Hooks : hook[h].pc = "write" /\ hook[h].input.session_id = path]
    /\ UNCHANGED <<dirState, files, procs, now, hook,
                 lastSubmitted, lastWritten, strays, viewer>>

\* ------------------------------------------------------------ the viewer
\* A reload that keeps the annotation of the list it replaces: a session that
\* was exited stays exited.
Reload_keepExited(v, goos, errs) ==
    LET r == LoadAll(dirState, files)
        find == [p \in Pids |->
                    IF \E i \in DOMAIN r.sessions : r.sessions[i].pid = p
                    THEN FindProcess(goos, p, errs) ELSE "none"]
        checked == CheckPIDLiveness(r.sessions, find)
    IN  [v EXCEPT !.goos = goos, !.loadErr = r.err, !.loaded = r.sessions,
                  !.find = find,
                  !.sessions =
                     [i \in DOMAIN checked |->
                        IF \E j \in DOMAIN v.sessions :
                              /\ v.sessions[j].session_id = checked[i].session_id
                              /\ v.sessions[j].status = StatusExited
                        THEN [checked[i] EXCEPT !.status = StatusExited,
                                                !.detail = "Process ended"]
                        ELSE checked[i]]]

\* session.LoadAll followed by CheckPIDLiveness, as monitor.New, the tickMsg
\* case of Update and the --once branch of main run them.
Reload(v, goos, errs) ==
    LET r == LoadAll(dirState, files)
        find == [p \in Pids |->
                    IF \E i \in DOMAIN r.sessions : r.sessions[i].pid = p
                    THEN FindProcess(goos, p, errs) ELSE "none"]
    IN  [v EXCEPT !.goos = goos, !.loadErr = r.err, !.loaded = r.sessions,
                  !.find = find, !.sessions = CheckPIDLiveness(r.sessions, find)]

\* The pids recorded in the session files: the ones a lookup of the viewer
\* can be about.
LoadablePids == {p \in Pids : \E f \in SessionIDs : files[f].ok /\ files[f].s.pid = p}

\* monitor.New and Init: the live view starts with the ticks scheduled; the
\* error of LoadAll is dropped.
ViewerNew(platforms, debugs) ==
    /\ ~viewer.running
    /\ \E goos \in platforms, errs \in SUBSET LoadablePids, debug \in debugs :
          viewer' = [Reload(NoViewer, goos, errs) EXCEPT
                        !.running = TRUE, !.debug = debug, !.ticks = 1,
                        !.flashTicks = 1]
    /\ UNCHANGED <<dirState, files, procs, now, hook, lastSubmitted, loadResult,
                   lastWritten, strays>>

\* A tick that writes the checked list back: the file of an exited session
\* gets the annotation.
ViewerTick_writeBack ==
    /\ viewer.running /\ viewer.ticks > 0
    /\ \E errs \in SUBSET LoadablePids :
          LET m == Reload(viewer, viewer.goos, errs)
              view == render(m.sessions, m.spinner, m.width, m.flashUntil, "",
                             m.showSummary, m.debug, "", now)
              tracked == trackStates(m.sessions, 1, m.lastState, m.flashUntil, FALSE, now)
          IN  /\ viewer' = [m EXCEPT !.clickMap = buildClickMap(m.sessions, view.text),
                                     !.lastState = tracked.lastState,
                                     !.flashUntil = tracked.flashUntil,
                                     !.ticks = @ - 1 + 1,
                                     !.flashTicks = IF tracked.newFlash
                                                    THEN Min(@ + 1, MaxFlashTicks)
                                                    ELSE @]
              /\ files' = [f \in SessionIDs |->
                             IF \E i \in DOMAIN m.sessions : m.sessions[i].session_id = f
                             THEN SessionFile(m.sessions[CHOOSE i \in DOMAIN m.sessions :
                                                 m.sessions[i].session_id = f])
                             ELSE files[f]]
    /\ UNCHANGED <<dirState, procs, now, hook, lastSubmitted, loadResult,
                   lastWritten, strays>>

\* A tick that builds the click map from the list it held before the reload.
ViewerTick_staleMap ==
    /\ viewer.running /\ viewer.ticks > 0
    /\ \E errs \in SUBSET LoadablePids :
          LET m == Reload(viewer, viewer.goos, errs)
              view == render(viewer.sessions, m.spinner, m.width, m.flashUntil, "",
                             m.showSummary, m.debug, "", now)
              tracked == trackStates(m.sessions, 1, m.lastState, m.flashUntil, FALSE, now)
          IN  viewer' = [m EXCEPT !.clickMap = buildClickMap(viewer.sessions, view.text),
                                  !.lastState = tracked.lastState,
                                  !.flashUntil = tracked.flashUntil,
                                  !.ticks = @ - 1 + 1,
                                  !.flashTicks = IF tracked.newFlash
                                                 THEN Min(@ + 1, MaxFlashTicks)
                                                 ELSE @]
    /\ UNCHANGED <<dirState, files, procs, now, hook, lastSubmitted, loadResult,
                   lastWritten, strays>>

\* A tick that schedules no next tick.
ViewerTick_noNextTick ==
    /\ viewer.running /\ viewer.ticks > 0
    /\ \E errs \in SUBSET LoadablePids :
          LET m == Reload(viewer, viewer.goos, errs)
              view == render(m.sessions, m.spinner, m.width, m.flashUntil, "",
                             m.showSummary, m.debug, "", now)
              tracked == trackStates(m.sessions, 1, m.lastState, m.flashUntil, FALSE, now)
          IN  viewer' = [m EXCEPT !.clickMap = buildClickMap(m.sessions, view.text),
                                  !.lastState = tracked.lastState,
                                  !.flashUntil = tracked.flashUntil,
                                  !.ticks = @ - 1,
                                  !.flashTicks = IF tracked.newFlash
                                                 THEN Min(@ + 1, MaxFlashTicks)
                                                 ELSE @]
    /\ UNCHANGED <<dirState, files, procs, now, hook, lastSubmitted, loadResult,
                   lastWritten, strays>>

\* Update, case tickMsg: the live view reloads, the error of LoadAll is
\* dropped; the click map is rebuilt from a render without status message,
\* and the sessions that changed start to flash.  The handled tick schedules
\* the next one, and a flash tick as well when a session changed.  errs are
\* the pids whose lookup fails.
tickMsg(errs) ==
    LET m == Reload(viewer, viewer.goos, errs)
        view == render(m.sessions, m.spinner, m.width, m.flashUntil, "",
                       m.showSummary, m.debug, "", now)
        tracked == trackStates(m.sessions, 1, m.lastState, m.flashUntil, FALSE, now)
    IN  [m EXCEPT !.clickMap = buildClickMap(m.sessions, view.text),
                  !.lastState = tracked.lastState,
                  !.flashUntil = tracked.flashUntil,
                  !.ticks = @ - 1 + 1,
                  !.flashTicks = IF tracked.newFlash
                                 THEN Min(@ + 1, MaxFlashTicks) ELSE @]

ViewerTick ==
    /\ viewer.running /\ viewer.ticks > 0
    /\ \E errs \in SUBSET LoadablePids : viewer' = tickMsg(errs)
    /\ UNCHANGED <<dirState, files, procs, now, hook, lastSubmitted, loadResult,
                   lastWritten, strays>>

\* Update, the keys q and ctrl+c: tea.Quit.
ViewerQuit ==
    /\ viewer.running
    /\ viewer' = NoViewer
    /\ UNCHANGED <<dirState, files, procs, now, hook, lastSubmitted, loadResult,
                   lastWritten, strays>>

\* Update, the key p.
ViewerKeyP ==
    /\ viewer.running
    /\ viewer' = [viewer EXCEPT !.showSummary = ~@]
    /\ UNCHANGED <<dirState, files, procs, now, hook, lastSubmitted, loadResult,
                   lastWritten, strays>>

\* Update, case tea.WindowSizeMsg.
ViewerResize(width) ==
    /\ viewer.running
    /\ viewer' = [viewer EXCEPT !.width = width]
    /\ UNCHANGED <<dirState, files, procs, now, hook, lastSubmitted, loadResult,
                   lastWritten, strays>>

\* Update, case flashTickMsg: the handled flash tick schedules the next one
\* while a flash is active.
ViewerFlashTick ==
    /\ viewer.running /\ viewer.flashTicks > 0
    /\ viewer' = [viewer EXCEPT
                     !.flashTicks = IF \E s \in SessionIDs : now < viewer.flashUntil[s]
                                    THEN @ - 1 + 1 ELSE @ - 1]
    /\ UNCHANGED <<dirState, files, procs, now, hook, lastSubmitted, loadResult,
                   lastWritten, strays>>

\* Update, case spinner.TickMsg: the spinner moves to its next frame.
ViewerSpinnerTick ==
    /\ viewer.running
    /\ viewer' = [viewer EXCEPT !.spinner = (@ % Len(SpinnerFrames)) + 1]
    /\ UNCHANGED <<dirState, files, procs, now, hook, lastSubmitted, loadResult,
                   lastWritten, strays>>

\* Update, case tea.MouseMsg, a release of the left button on line y: when
\* the click map has the line and the list has the session, the status
\* message is set and a goroutine is started for switcher.Switch; Update
\* returns.  One such goroutine is in flight at a time.
ViewerMouse(y) ==
    /\ viewer.running /\ ~viewer.sw.running
    /\ LET hits == IF y \in DOMAIN viewer.clickMap
                   THEN {i \in DOMAIN viewer.sessions :
                            viewer.sessions[i].session_id = viewer.clickMap[y]}
                   ELSE {}
       IN  IF hits = {} THEN UNCHANGED viewer
           ELSE LET s == viewer.sessions[CHOOSE i \in hits : \A j \in hits : i <= j]
                IN  viewer' = [viewer EXCEPT
                       !.statusMsg = "Switching to " \o filepathBase(s.project) \o "...",
                       !.statusUntil = now + 3,
                       !.sw = [NoSwitch EXCEPT !.running = TRUE, !.terms = s.terminals]]
    /\ UNCHANGED <<dirState, files, procs, now, hook, lastSubmitted, loadResult,
                   lastWritten, strays>>

\* The goroutine of a click takes a step of switcher.Switch; its result is
\* dropped.
SwitchStep ==
    /\ viewer.running /\ viewer.sw.running
    /\ \E selectOk \in BOOLEAN : viewer' = [viewer EXCEPT !.sw = Switch(@, selectOk)]
    /\ UNCHANGED <<dirState, files, procs, now, hook, lastSubmitted, loadResult,
                   lastWritten, strays>>

\* session.CleanAll: every entry that is a file with the extension .json is
\* removed.
CleanAll(ds, dir) ==
    IF ds # "ok" THEN dir ELSE [f \in DOMAIN dir |-> NoFile]

\* main, --clean: an error of CleanAll ends the process with status 1.
CleanRun ==
    /\ ~viewer.running
    /\ files' = CleanAll(dirState, files)
    /\ viewer' = [NoViewer EXCEPT !.exit = IF dirState = "unreadable" THEN "exit 1"
                                             ELSE "cleaned"]
    /\ lastSubmitted' = Forget(files')
    /\ lastWritten' = ForgetWritten(files')
    /\ UNCHANGED <<dirState, procs, now, hook, loadResult, strays>>

\* The wall clock of the viewer advances by a second.
ClockTick ==
    /\ now < MaxClock
    /\ now' = now + 1
    /\ UNCHANGED <<dirState, files, procs, hook, lastSubmitted,
                   loadResult, lastWritten, strays, viewer>>

\* main, --once: an error of LoadAll is printed and the process exits with
\* status 1; otherwise the list is checked, rendered and printed.
SnapshotOnce(platforms) ==
    /\ ~viewer.running
    /\ \E goos \in platforms, errs \in SUBSET LoadablePids :
          LET r == LoadAll(dirState, files)
          IN  viewer' = IF r.err # "nil"
                        THEN [NoViewer EXCEPT !.goos = goos, !.loadErr = r.err,
                                              !.exit = "exit 1"]
                        ELSE [Reload(NoViewer, goos, errs) EXCEPT !.exit = "printed"]
    /\ UNCHANGED <<dirState, files, procs, now, hook, lastSubmitted, loadResult,
                   lastWritten, strays>>

\* An entry that is not a session file appears in the directory.
AddStray(e) ==
    /\ dirState = "ok"
    /\ e \notin strays
    /\ strays' = strays \cup {e}
    /\ UNCHANGED <<dirState, files, procs, now, hook, lastSubmitted, loadResult,
                   lastWritten, viewer>>

\* The directory loses its permissions, between two hook invocations.
Chmod(mode) ==
    /\ \A h \in Hooks : hook[h].pc = "idle"
    /\ \/ mode = "000" /\ dirState = "ok" /\ dirState' = "unreadable"
       \/ mode = "755" /\ dirState = "unreadable" /\ dirState' = "ok"
    /\ UNCHANGED <<files, procs, now, hook, lastSubmitted, loadResult,
                   lastWritten, strays, viewer>>

\* ------------------------------------------------------ specifications
\* One hook at a time, every event name, one platform.
StatusNext ==
    \/ HookBegin("h1", StatusInputs, {"linux"})
    \/ HookBadInput("h1")
    \/ HookSweep("h1")
    \/ HookRemoveOwn("h1")
    \/ HookLoad("h1", {0, 1}, {NoTermInfo})
    \/ HookCleanupSamePID("h1")
    \/ HookWriteOpen("h1")
    \/ HookWriteData("h1")
    \/ HookExit("h1")
    \/ Tick
    \/ ProcessExit("linux", 1)

StatusSpec == Init /\ [][StatusNext]_vars

\* One hook at a time, both platforms, every pid, the directory removable.
CleanupNext ==
    \/ HookBegin("h1", CleanupInputs, Platforms)
    \/ HookBadInput("h1")
    \/ HookSweep("h1")
    \/ HookRemoveOwn("h1")
    \/ HookLoad("h1", {0} \cup Pids, {NoTermInfo})
    \/ HookCleanupSamePID("h1")
    \/ HookWriteOpen("h1")
    \/ HookWriteData("h1")
    \/ HookWriteFail("h1")
    \/ HookExit("h1")
    \/ \E p \in Pids : ProcessExit("linux", p)
    \/ RemoveDir

CleanupSpec == Init /\ [][CleanupNext]_vars

\* Hook processes overlapping, and a reader.
Next ==
    \/ \E h \in Hooks :
          \/ HookBegin(h, RaceInputs(h), {"linux"})
          \/ HookLoad(h, {0, 1}, {NoTermInfo})
          \/ HookCleanupSamePID(h)
          \/ HookWriteOpen(h)
          \/ HookWriteData(h)
          \/ HookExit(h)
    \/ \E f \in SessionIDs : ReaderLoadFile(f)

Spec == Init /\ [][Next]_vars

\* Hook processes of one session overlapping while the clock runs.
ClockNext ==
    \/ \E h \in Hooks :
          \/ HookBegin(h, PlainInputs({"A"}, {EventStop, EventUserPromptSubmit}), {"linux"})
          \/ HookLoad(h, {1}, {NoTermInfo})
          \/ HookCleanupSamePID(h)
          \/ HookWriteOpen(h)
          \/ HookWriteData(h)
          \/ HookExit(h)
    \/ Tick

ClockSpec == Init /\ [][ClockNext]_vars

\* One hook at a time on one platform, --once runs of the viewer on either,
\* processes of both platforms ending, other entries in the directory, the
\* directory unreadable or removed.
ViewerNext ==
    \/ HookBegin("h1", ViewerInputs, {"linux"})
    \/ HookLoad("h1", {0, 1}, {NoTermInfo})
    \/ HookCleanupSamePID("h1")
    \/ HookWriteOpen("h1")
    \/ HookWriteData("h1")
    \/ HookExit("h1")
    \/ \E g \in Platforms : ProcessExit(g, 1)
    \/ \E e \in StrayEntries : AddStray(e)
    \/ \E m \in {"000", "755"} : Chmod(m)
    \/ RemoveDir
    \/ SnapshotOnce(Platforms)

ViewerSpec == Init /\ [][ViewerNext]_vars

\* One hook for session B, whose terminal lookup answers anything.
TerminalNext ==
    \/ HookBegin("h1", TerminalInputs, {"windows"})
    \/ HookBadInput("h1")
    \/ HookSweep("h1")
    \/ HookLoad("h1", {0, 1}, TermInfos)
    \/ HookCleanupSamePID("h1")
    \/ HookWriteOpen("h1")
    \/ HookWriteData("h1")
    \/ HookExit("h1")

TerminalSpec == Init /\ [][TerminalNext]_vars

\* ------------------------------------------- the directories of the view
ApiProject == "/home/u/api"
WebProject == "/home/u/web"
\* A prompt of two lines, a prompt longer than a line of the box, a detail
\* longer than the detail column.
MultiLinePrompt == "fix\nbug"
LongPrompt == Repeat("refactor ", 8)
LongDetail == "Bash: " \o Repeat("make test ", 4)

\* Records of session A, which is working in the api project; the one with
\* the prompt of two lines has a tab title as summary.  The pids of the
\* records of the view are unknown but the one of LiveSessionsB.
RenderSessionsA ==
    {[ZeroSession EXCEPT !.session_id = "A", !.project = ApiProject,
                         !.status = StatusWorking, !.detail = pd[2],
                         !.last_prompt = pd[1], !.summary = pd[3],
                         !.last_activity = 1, !.os = "linux"] :
        pd \in {<<"", "Bash: ls -la", "">>, <<"fix bug", LongDetail, "">>,
                <<MultiLinePrompt, "Bash: ls -la", "Fix tests">>}}

\* Records of session B, which is idle in either project.
RenderSessionsB ==
    {[ZeroSession EXCEPT !.session_id = "B", !.project = x[1],
                         !.status = StatusIdle, !.detail = "Finished responding",
                         !.last_prompt = x[2], !.summary = x[3],
                         !.last_activity = 1, !.os = "linux"] :
        x \in {<<ApiProject, "", "">>, <<ApiProject, LongPrompt, "Fix tests">>,
               <<WebProject, "add test", "">>, <<WebProject, "", "Claude Code">>}}

\* Descriptor lists: none, the two registered backends outer first, an
\* unregistered kind before or after a registered one.
TerminalLists ==
    {<<>>,
     <<[backend |-> "wt", id |-> "tab-1"]>>,
     <<[backend |-> "wt", id |-> "tab-1"], [backend |-> "tmux", id |-> "%1"]>>,
     <<[backend |-> "iterm", id |-> "w0"], [backend |-> "tmux", id |-> "%1"]>>,
     <<[backend |-> "wt", id |-> "tab-1"], [backend |-> "iterm", id |-> "w0"],
       [backend |-> "tmux", id |-> "%1"]>>}

\* Records of session A with their descriptors.
LiveSessionsA ==
    {[ZeroSession EXCEPT !.session_id = "A", !.project = ApiProject,
                         !.status = StatusIdle, !.detail = "Finished responding",
                         !.last_prompt = "fix bug", !.last_activity = 1,
                         !.terminals = ts, !.os = "linux"] : ts \in TerminalLists}

\* The record of session B, in a tmux pane; its process has ended.
LiveSessionsB ==
    {[ZeroSession EXCEPT !.session_id = "B", !.project = ApiProject,
                         !.status = StatusWorking, !.detail = "Bash: ls -la",
                         !.last_activity = 1, !.pid = 2, !.os = "linux",
                         !.terminals = <<[backend |-> "tmux", id |-> "%2"]>>]}

\* A directory that holds for A one of the files as and for B one of the
\* files bs, while the processes live run; no hook runs.
ViewInit(as, bs, live) ==
    /\ dirState = "ok"
    /\ files \in {[f \in SessionIDs |-> IF f = "A" THEN a ELSE b] :
                    a \in as, b \in bs}
    /\ procs = live
    /\ now = 1
    /\ hook = [h \in Hooks |-> IdleHook]
    /\ lastSubmitted = [s \in SessionIDs |-> ""]
    /\ loadResult = [path |-> "", err |-> "none", writing |-> FALSE]
    /\ lastWritten = [s \in SessionIDs |-> IF files[s].ok THEN files[s].s ELSE ZeroSession]
    /\ strays = {}
    /\ viewer = NoViewer

\* The window widths a resize reports.
Widths == {100}
\* The lines a click can fall on.
MaxLine == 13

\* The live view over a directory that no hook writes: ticks of the three
\* timers, the key p, resizes, the clock.
RenderNext ==
    \/ ViewerNew({"linux"}, BOOLEAN)
    \/ ViewerTick
    \/ ViewerKeyP
    \/ \E w \in Widths : ViewerResize(w)
    \/ ViewerFlashTick
    \/ ViewerSpinnerTick
    \/ Tick

RenderInit ==
    ViewInit({NoFile} \cup {SessionFile(s) : s \in RenderSessionsA},
             {NoFile} \cup {SessionFile(s) : s \in RenderSessionsB},
             Platforms \X Pids)

RenderSpec == RenderInit /\ [][RenderNext]_vars

\* The live view with its clicks and their goroutines, the --once and
\* --clean runs of main.
LiveNext ==
    \/ ViewerNew({"linux"}, {FALSE})
    \/ ViewerTick
    \/ ViewerKeyP
    \/ \E w \in Widths : ViewerResize(w)
    \/ ViewerFlashTick
    \/ \E y \in 0 .. MaxLine : ViewerMouse(y)
    \/ SwitchStep
    \/ ViewerQuit
    \/ SnapshotOnce({"linux"})
    \/ CleanRun
    \/ ClockTick

LiveInit ==
    ViewInit({SessionFile(s) : s \in LiveSessionsA},
             {SessionFile(s) : s \in LiveSessionsB},
             (Platforms \X Pids) \ {<<"linux", 2>>})

LiveSpec == LiveInit /\ [][LiveNext]_vars

\* The lists GroupByProject is applied to: up to three sessions with
\* different ids, in any order, each in either project and last active at
\* either time.
GroupRecords ==
    {[ZeroSession EXCEPT !.session_id = id, !.project = p,
                         !.status = StatusIdle, !.last_activity = t] :
        id \in {"A", "B", "C"}, p \in {ApiProject, WebProject}, t \in 1 .. 2}
GroupInputs ==
    {l \in UNION {[1 .. n -> GroupRecords] : n \in 0 .. 3} :
        \A i, j \in DOMAIN l : l[i].session_id = l[j].session_id => i = j}

\* The view holds one of the lists.
GroupInit ==
    /\ dirState = "ok"
    /\ files = [f \in SessionIDs |-> NoFile]
    /\ procs = Platforms \X Pids
    /\ now = 1
    /\ hook = [h \in Hooks |-> IdleHook]
    /\ lastSubmitted = [s \in SessionIDs |-> ""]
    /\ loadResult = [path |-> "", err |-> "none", writing |-> FALSE]
    /\ lastWritten = [s \in SessionIDs |-> ZeroSession]
    /\ strays = {}
    /\ \E l \in GroupInputs : viewer = [NoViewer EXCEPT !.loaded = l, !.sessions = l]

\* render and buildClickMap, groups := session.GroupByProject(sessions): the
\* list is put in the order of the groups.
GroupStep ==
    /\ viewer.exit = "none"
    /\ viewer' = [viewer EXCEPT !.sessions = Flatten(GroupByProject(viewer.loaded)),
                                !.exit = "printed"]
    /\ UNCHANGED <<dirState, files, procs, now, hook, lastSubmitted, loadResult,
                   lastWritten, strays>>

GroupNext == GroupStep

GroupSpec == GroupInit /\ [][GroupNext]_vars

\* The record of session B when the live view starts: working, its process
\* has pid 1.
WatchSession ==
    [ZeroSession EXCEPT !.session_id = "B", !.project = ApiProject,
                        !.status = StatusWorking, !.detail = "Bash: ls -la",
                        !.last_prompt = "fix bug", !.last_activity = 1,
                        !.pid = 1, !.os = "linux"]

WatchInit == ViewInit({NoFile}, {SessionFile(WatchSession)}, Platforms \X Pids)

\* The live view and the --once run while a hook handles the events of
\* session B and the process of B may end; the pid lookup of the hook finds
\* nothing or pid 2.
WatchNext ==
    \/ HookBegin("h1", PlainInputs({"B"}, {EventUserPromptSubmit, EventStop, EventSessionEnd}),
                 {"linux"})
    \/ HookSweep("h1")
    \/ HookRemoveOwn("h1")
    \/ HookLoad("h1", {0, 2}, {NoTermInfo})
    \/ HookCleanupSamePID("h1")
    \/ HookWriteOpen("h1")
    \/ HookWriteData("h1")
    \/ HookExit("h1")
    \/ ProcessExit("linux", 1)
    \/ ViewerNew({"linux"}, {FALSE})
    \/ ViewerTick
    \/ ViewerFlashTick
    \/ ViewerQuit
    \/ SnapshotOnce({"linux"})

WatchSpec == WatchInit /\ [][WatchNext]_vars

\* The records of session A, whose pid is unknown.
UnknownPidSessions ==
    {[ZeroSession EXCEPT !.session_id = "A", !.project = ApiProject,
                         !.status = StatusIdle, !.detail = "Finished responding",
                         !.last_activity = 1, !.pid = p, !.os = "linux"] : p \in {-1, 0}}

\* A's file records no pid, B's file records pid 1; every process runs.
PidInit ==
    ViewInit({SessionFile(s) : s \in UnknownPidSessions}, {SessionFile(WatchSession)},
             Platforms \X Pids)

\* One hook at a time for either session, for the events that write a
\* record; its pid lookup finds nothing, or pid 2.
PidNext ==
    \/ HookBegin("h1", PlainInputs(SessionIDs, {EventSessionStart, EventUserPromptSubmit, EventStop}),
                 {"linux"})
    \/ HookSweep("h1")
    \/ HookLoad("h1", {0, 2}, {NoTermInfo})
    \/ HookCleanupSamePID("h1")
    \/ HookWriteOpen("h1")
    \/ HookWriteData("h1")
    \/ HookExit("h1")

PidSpec == PidInit /\ [][PidNext]_vars

\* The live view while a hook handles the end of a turn and the end of the
\* session of B; the pid lookup of the hook finds nothing.
TickLoopNext ==
    \/ HookBegin("h1", PlainInputs({"B"}, {EventStop, EventSessionEnd}), {"linux"})
    \/ HookSweep("h1")
    \/ HookRemoveOwn("h1")
    \/ HookLoad("h1", {0}, {NoTermInfo})
    \/ HookCleanupSamePID("h1")
    \/ HookWriteOpen("h1")
    \/ HookWriteData("h1")
    \/ HookExit("h1")
    \/ ViewerNew({"linux"}, {FALSE})
    \/ ViewerTick
    \/ ViewerFlashTick
    \/ ViewerQuit

\* A reload tick is scheduled and handling it changes what the live view
\* holds: ENABLED <<ViewerTick>>_vars.
TickChanges ==
    /\ viewer.running /\ viewer.ticks > 0
    /\ \E errs \in SUBSET LoadablePids : tickMsg(errs) # viewer

\* These steps with the timers firing: a tick that is scheduled is delivered
\* to Update as long as the program runs.  The condition on the reload tick
\* is weak fairness of ViewerTick, written out with TickChanges for its
\* enabling condition.
TickLoopFairSpec ==
    /\ WatchInit /\ [][TickLoopNext]_vars
    /\ ([]<>~TickChanges \/ []<><<ViewerTick>>_vars)
    /\ WF_vars(ViewerFlashTick)

\* ---------------------------------------------------------- properties
\* The hook process h takes this step.
Stepped(h) == hook'[h] # hook[h]
\* The input of the invocation that takes this step.
StepInput(h) == IF hook[h].pc = "idle" THEN hook'[h].input ELSE hook[h].input

HandledEvents ==
    {EventSessionStart, EventSessionEnd, EventUserPromptSubmit, EventPreToolUse,
     EventPostToolUse, EventNotification, EventStop}

\* The status table of the documentation, by event name.
TableStatus(input) ==
    CASE input.hook_event_name = "SessionStart" -> "starting"
      [] input.hook_event_name = "UserPromptSubmit" -> "working"
      [] input.hook_event_name = "PreToolUse" -> "working"
      [] input.hook_event_name = "PostToolUse" -> "working"
      [] input.hook_event_name = "Stop" -> "idle"
      [] input.hook_event_name = "Notification"
            /\ input.notification_type \in {"permission_prompt", "elicitation_dialog"} -> "waiting"
      [] OTHER -> "no record"

\* C1: whenever a step puts a record into a session file, that step is the
\* write of a hook invocation for that session, and the record's status is the
\* one the table gives for the event name (waiting only for a
\* permission_prompt or elicitation_dialog notification), with detail
\* "Finished responding" for Stop, whatever the file held before.
C1_StatusFixedByEvent ==
    [][\A f \in SessionIDs :
          (files'[f] # files[f] /\ files'[f].ok) =>
             \E h \in Hooks :
                /\ hook[h].pc = "write" /\ hook'[h].pc = "done"
                /\ hook[h].input.session_id = f
                /\ files'[f].s.status = TableStatus(hook[h].input)
                /\ (hook[h].input.hook_event_name = "Stop"
                       => files'[f].s.detail = "Finished responding")]_vars

\* C1 witness: a Stop and an actionable notification have each been written
\* over a record (the legacy file is idle, a Stop follows other statuses).
C1_Witness ==
    \E h \in Hooks :
       /\ hook[h].pc = "done" /\ hook[h].ret = "nil"
       /\ hook[h].input.hook_event_name = "Stop"
       /\ files[hook[h].input.session_id].ok
       /\ files[hook[h].input.session_id].s.status = "idle"
       /\ files[hook[h].input.session_id].s.last_prompt # ""

\* No hook invocation for session s is between its begin and its return.
NoHookRunningFor(s) ==
    \A h \in Hooks : hook[h].pc \in {"idle", "done"} \/ hook[h].input.session_id # s

\* C2: whenever no hook for a session is running and its file holds a record,
\* the record's last_prompt is the prompt of the most recent UserPromptSubmit
\* written for that session (empty when there was none since the file was
\* created), under any interleaving of the session's hook invocations.
C2_LastPromptIsLatestSubmit ==
    \A s \in SessionIDs :
       (NoHookRunningFor(s) /\ files[s].ok) => files[s].s.last_prompt = lastSubmitted[s]

\* C3: a hook invocation running alone, for session B with resolved pid p > 0:
\* its duplicate-pid cleanup leaves B's own file as it was, and when its write
\* has returned B's file holds the new record and no other file records p
\* under the platform tag of the invocation.
C3_DuplicatePidRemoved ==
    [][\A h \in Hooks :
          LET sid == hook[h].input.session_id
          IN  /\ (hook[h].pc = "samepid" /\ hook'[h].pc = "open")
                    => files'[sid] = files[sid]
              /\ (/\ hook[h].pc = "write" /\ hook'[h].pc = "done"
                  /\ hook'[h].ret = "nil" /\ dirState = "ok" /\ hook[h].s.pid > 0)
                    => /\ files'[sid] = SessionFile(hook[h].s)
                       /\ \A f \in SessionIDs \ {sid} :
                             ~(/\ files'[f].ok
                               /\ files'[f].s.pid = hook[h].s.pid
                               /\ files'[f].s.os = hook[h].goos)]_vars

\* C3 witness: an invocation for B has returned after its cleanup removed A's
\* file, which recorded the same pid, and B's file is there.
C3_Witness ==
    \E h \in Hooks :
       /\ hook[h].pc = "done" /\ hook[h].ret = "nil"
       /\ hook[h].input.session_id = "B" /\ hook[h].s.pid > 0
       /\ hook[h].dups = {"A"}
       /\ files["B"].ok /\ ~files["A"].exists

\* C4: whenever no hook invocation is in progress, no two session files
\* record the same process id p > 0 under the same platform tag, also after
\* invocations for different sessions that share p have overlapped.
C4_OneFilePerPid ==
    (\A h \in Hooks : hook[h].pc \in {"idle", "done"}) =>
       \A f, g \in SessionIDs :
          (f # g /\ files[f].ok /\ files[g].ok /\ files[f].s.pid > 0)
             => ~(files[f].s.pid = files[g].s.pid /\ files[f].s.os = files[g].s.os)

\* C5: a LoadFile made while a hook is inside its write of that file never
\* fails to parse it: the reader gets the previous or the new record, not an
\* empty or partly written file.
C5_ReaderNeverSeesTornFile ==
    loadResult.writing => loadResult.err # "parse"

\* The record in f is one the sweep of hook h must remove: it parses, its pid
\* is > 0, its tag is absent or the platform of h, and FindProcess answered
\* that no such process exists.
ConfirmedDead(f, goos, find) ==
    /\ dirState = "ok" /\ files[f].ok
    /\ files[f].s.pid > 0
    /\ files[f].s.os \in {"", goos}
    /\ find[files[f].s.pid] = "dead"

\* The step is the dead-pid sweep of hook h.
SweepStep(h) == hook[h].pc = "sweep" /\ hook'[h].pc # "sweep"

\* C6: the sweep of a SessionStart or SessionEnd invocation removes every
\* parseable file whose pid is > 0, whose tag is the local platform or absent
\* and whose process is confirmed not to exist; and both events run it.
C6_SweepRemovesDead ==
    [][\A h \in Hooks :
          /\ SweepStep(h) =>
                \A f \in SessionIDs :
                   ConfirmedDead(f, hook[h].goos, hook'[h].find) => ~files'[f].exists
          /\ (hook[h].pc = "idle" /\ hook'[h].pc # "idle"
                 /\ hook'[h].input.hook_event_name \in {"SessionStart", "SessionEnd"})
                => hook'[h].pc = "sweep"]_vars

\* C6 witness: a SessionStart has swept away the file of a dead process and
\* gone on to write its own.
C6_Witness ==
    \E h \in Hooks :
       /\ hook[h].input.hook_event_name = "SessionStart"
       /\ hook[h].pc = "done" /\ hook[h].ret = "nil"
       /\ hook[h].swept # {}
       /\ \A f \in hook[h].swept : f # hook[h].input.session_id /\ ~files[f].exists

\* C7: the sweep changes no file but those it must remove (so none whose
\* process is alive, whose pid is <= 0, whose tag names another platform,
\* which does not parse, or whose lookup failed); cleanupDead returns no
\* error, also when the directory is missing; and only SessionStart and
\* SessionEnd invocations ever reach the sweep.
C7_SweepRemovesOnlyDead ==
    [][\A h \in Hooks :
          /\ SweepStep(h) =>
                /\ \A f \in SessionIDs :
                      files'[f] # files[f] => ConfirmedDead(f, hook[h].goos, hook'[h].find)
                /\ hook'[h].sweepErr = "nil"
          /\ hook'[h].pc = "sweep" =>
                hook'[h].input.hook_event_name \in {"SessionStart", "SessionEnd"}
          /\ (Stepped(h) /\ StepInput(h).hook_event_name \notin {"SessionStart", "SessionEnd"})
                => hook'[h].swept = {} /\ hook'[h].sweepErr = "none"]_vars

\* C7 witness: a sweep has just passed over a file tagged with the other
\* platform whose pid is dead on the sweeping platform, and over a file that
\* does not parse.
C7_Witness ==
    \E h \in Hooks :
       /\ hook[h].pc \in {"remove", "load"} /\ hook[h].sweepErr = "nil"
       /\ \E f, g \in SessionIDs :
             /\ files[f].ok /\ files[f].s.pid > 0
             /\ files[f].s.os \notin {"", hook[h].goos}
             /\ hook[h].find[files[f].s.pid] = "dead"
             /\ files[g].exists /\ ~files[g].ok

\* C7 witness for the missing directory: the sweep ran on a directory that
\* was gone and returned no error.
C7_WitnessMissingDir ==
    \E h \in Hooks :
       hook[h].pc \in {"remove", "load"} /\ hook[h].sweepErr = "nil" /\ dirState = "missing"

\* C8: a SessionEnd invocation changes a file only by removing it; when it
\* has returned, it returned no error and the session's file does not exist;
\* and processing the event again (with the same process lookups) would leave
\* the directory as it is.
C8_SessionEndRemovesOwnFile ==
    [][\A h \in Hooks :
          (Stepped(h) /\ StepInput(h).hook_event_name = "SessionEnd") =>
             /\ \A f \in SessionIDs : files'[f] # files[f] => files'[f] = NoFile
             /\ hook'[h].pc = "done" =>
                   /\ hook'[h].ret = "nil"
                   /\ ~files'[hook[h].input.session_id].exists
                   /\ Remove(cleanupDead(dirState', files', hook[h].goos, hook[h].find).dir,
                             hook[h].input.session_id) = files']_vars

\* C8 witness: a SessionEnd has returned after its sweep removed another
\* session's file.
C8_Witness ==
    \E h \in Hooks :
       /\ hook[h].input.hook_event_name = "SessionEnd"
       /\ hook[h].pc = "done" /\ hook[h].ret = "nil"
       /\ hook[h].swept # {} /\ hook[h].input.session_id \notin hook[h].swept
       /\ ~files[hook[h].input.session_id].exists

C10_UnknownEventIsNoop ==
    [][\A h \in Hooks :
          (/\ Stepped(h)
           /\ StepInput(h).hook_event_name # ""
           /\ StepInput(h).hook_event_name \notin HandledEvents)
             => /\ files' = files
                /\ hook'[h].pc \in {"done", "idle"}
                /\ hook'[h].pc = "done" => hook'[h].ret = "nil"]_vars

\* C10 witness: an unknown event has returned nil for a session that has no
\* file while another file is in the directory.
C10_Witness ==
    \E h \in Hooks :
       /\ hook[h].pc = "done" /\ hook[h].ret = "nil"
       /\ hook[h].input.hook_event_name = UnknownEvent
       /\ ~files[hook[h].input.session_id].exists
       /\ \E f \in SessionIDs : files[f].ok

\* The statuses of the event table.
HookStatuses == {"starting", "working", "waiting", "idle"}

MachineEdges ==
    {<<"starting", "working">>, <<"working", "idle">>, <<"idle", "working">>,
     <<"working", "waiting">>, <<"idle", "waiting">>, <<"waiting", "working">>}

LookupDead(i) ==
    viewer.loaded[i].pid > 0 /\ viewer.find[viewer.loaded[i].pid] = "dead"

\* C13: after LoadAll and CheckPIDLiveness, every loaded record with pid > 0
\* whose lookup found no process has status exited and detail "Process ended"
\* and its other fields as loaded, and every other record of the list is as
\* loaded; the list keeps its length and order.
C13_DeadMarkedExited ==
    /\ Len(viewer.sessions) = Len(viewer.loaded)
    /\ \A i \in DOMAIN viewer.loaded :
          IF LookupDead(i)
          THEN /\ viewer.sessions[i].status = "exited"
               /\ viewer.sessions[i].detail = "Process ended"
               /\ [viewer.sessions[i] EXCEPT !.status = "", !.detail = ""]
                     = [viewer.loaded[i] EXCEPT !.status = "", !.detail = ""]
          ELSE viewer.sessions[i] = viewer.loaded[i]

\* C13 witness: the viewer holds two records, one marked exited with its
\* last_activity, pid and session id as loaded, the other as loaded.
C13_Witness ==
    /\ viewer.exit = "printed" /\ Len(viewer.sessions) = 2
    /\ \E i, j \in DOMAIN viewer.sessions :
          /\ LookupDead(i) /\ viewer.sessions[i].status = "exited"
          /\ viewer.loaded[i].status = "idle"
          /\ ~LookupDead(j) /\ viewer.sessions[j].status = "working"

\* C14: a loaded record whose pid is <= 0 keeps the status and detail it was
\* loaded with, after every reload.
C14_UnknownPidUntouched ==
    \A i \in DOMAIN viewer.loaded :
       viewer.loaded[i].pid <= 0
          => /\ viewer.sessions[i].status = viewer.loaded[i].status
             /\ viewer.sessions[i].detail = viewer.loaded[i].detail
             /\ viewer.sessions[i].status # "exited"

\* C14 witness: the viewer holds a record with pid 0, unchanged, next to a
\* record it marked exited.
C14_Witness ==
    /\ viewer.exit = "printed"
    /\ \E i, j \in DOMAIN viewer.sessions :
          /\ viewer.loaded[i].pid = 0 /\ viewer.sessions[i].status = "idle"
          /\ viewer.sessions[j].status = "exited"

\* C15: a loaded record whose lookup returned an error keeps its status and
\* detail, and a loaded record whose lookup found a process keeps the status
\* it was loaded with.
C15_FailOpen ==
    \A i \in DOMAIN viewer.loaded :
       LET s == viewer.loaded[i]
       IN  /\ (s.pid > 0 /\ viewer.find[s.pid] = "error")
                 => /\ viewer.sessions[i].status = s.status
                    /\ viewer.sessions[i].detail = s.detail
           /\ (s.pid > 0 /\ viewer.find[s.pid] = "alive")
                 => viewer.sessions[i].status = s.status

\* C15 witness: the lookup failed for a record whose process has ended, and
\* the viewer shows it with the status of its file.
C15_Witness ==
    /\ viewer.exit = "printed"
    /\ \E i \in DOMAIN viewer.sessions :
          /\ viewer.loaded[i].pid > 0
          /\ viewer.find[viewer.loaded[i].pid] = "error"
          /\ <<viewer.goos, viewer.loaded[i].pid>> \notin procs
          /\ viewer.sessions[i].status = "idle"

\* C16: when the viewer reloads, a record tagged with a platform other than
\* the viewer's is not marked exited while its process lives on its own
\* platform, and is not left as loaded on the answer of the viewer's process
\* table when its process has ended on its own platform.
C16_NoCrossPlatformLiveness ==
    [][viewer' # viewer =>
          \A i \in DOMAIN viewer'.loaded :
             LET s == viewer'.loaded[i]
             IN  (s.pid > 0 /\ s.os # "" /\ s.os # viewer'.goos)
                    => /\ <<s.os, s.pid>> \in procs => viewer'.sessions[i].status # "exited"
                       /\ ~(/\ <<s.os, s.pid>> \notin procs
                            /\ viewer'.find[s.pid] = "alive"
                            /\ viewer'.sessions[i].status # "exited")]_vars

\* C17: the duplicate-pid cleanup of an invocation removes a file only if the
\* file holds a record with the invocation's resolved pid and with the
\* platform tag of the invocation; a file with another pid, another tag or
\* no tag stays.
C17_RemovesOnlySamePlatformPid ==
    [][\A h \in Hooks :
          (hook[h].pc = "samepid" /\ hook'[h].pc = "open")
             => \A f \in SessionIDs :
                   (files[f].exists /\ ~files'[f].exists)
                      => /\ files[f].ok
                         /\ files[f].s.pid = hook[h].s.pid
                         /\ files[f].s.os = hook[h].goos]_vars

\* C18: from one write of a session's file to the next, last_activity does
\* not decrease, overlapping invocations included.
C18_LastActivityMonotonic ==
    [][\A s \in SessionIDs :
          (lastWritten[s].session_id # "" /\ lastWritten'[s].session_id # "")
             => lastWritten'[s].last_activity >= lastWritten[s].last_activity]_vars

\* The session files that hold a record.
ParsingFiles == {f \in SessionIDs : files[f].ok}

\* C19: whatever the directory holds, LoadAll returns no error and exactly
\* the records of the session files that parse: nothing for a file that does
\* not parse, for an entry without the .json extension or for a subdirectory.
C19_LoadAllValidSubset ==
    dirState = "ok" =>
       LET r == LoadAll(dirState, files)
       IN  /\ r.err = "nil"
           /\ Len(r.sessions) = Cardinality(ParsingFiles)
           /\ \A f \in ParsingFiles : \E i \in DOMAIN r.sessions : r.sessions[i] = files[f].s
           /\ \A i \in DOMAIN r.sessions : \E f \in ParsingFiles : r.sessions[i] = files[f].s

\* C19 witness: the viewer has loaded one record without an error from a
\* directory that also holds a file being written, a copy under another
\* extension and a subdirectory.
C19_Witness ==
    /\ viewer.exit = "printed" /\ viewer.loadErr = "nil"
    /\ dirState = "ok" /\ strays = StrayEntries
    /\ files["B"] = TornFile /\ files["A"].ok
    /\ viewer.loaded = <<files["A"].s>>

\* C20: when the directory is missing or cannot be read, LoadAll returns no
\* sessions and no error, and a --once run does not exit with an error.
C20_BadDirectoryIsEmpty ==
    /\ dirState \in {"missing", "unreadable"}
          => LoadAll(dirState, files) = [err |-> "nil", sessions |-> <<>>]
    /\ viewer.exit # "exit 1"


\* The hook process h writes the record of a UserPromptSubmit in this step.
WritesPrompt(h) ==
    /\ hook[h].pc = "write" /\ hook'[h].pc = "done"
    /\ hook[h].input.hook_event_name = EventUserPromptSubmit
    /\ files'[hook[h].input.session_id].ok
    /\ files' # files

\* C29: the write of a UserPromptSubmit puts into the session's file status
\* working and the submitted text as last_prompt, and leaves the detail as
\* the previous write of that session left it.
C29_PromptKeepsDetail ==
    [][\A h \in Hooks :
          WritesPrompt(h) =>
             LET sid == hook[h].input.session_id
             IN  /\ files'[sid].s.status = "working"
                 /\ files'[sid].s.last_prompt = hook[h].input.prompt
                 /\ lastWritten[sid].status # ""
                       => files'[sid].s.detail = lastWritten[sid].detail]_vars

\* C29 amended: the write of a UserPromptSubmit puts into the session's file
\* status working, the submitted text as last_prompt and the detail
\* "Processing prompt...", whatever detail the previous write left.
C29_PromptSetsDetail ==
    [][\A h \in Hooks :
          WritesPrompt(h) =>
             LET sid == hook[h].input.session_id
             IN  /\ files'[sid].s.status = "working"
                 /\ files'[sid].s.last_prompt = hook[h].input.prompt
                 /\ files'[sid].s.detail = "Processing prompt..."]_vars

\* C29 witness: the record of a UserPromptSubmit, with the detail
\* "Processing prompt...", is being written over a record whose detail a
\* PreToolUse had set.
C29_Witness ==
    \E h \in Hooks :
       /\ hook[h].pc = "write"
       /\ hook[h].input.hook_event_name = EventUserPromptSubmit
       /\ hook[h].s.status = "working"
       /\ hook[h].s.last_prompt = "fix bug"
       /\ hook[h].s.detail = "Processing prompt..."
       /\ lastWritten[hook[h].input.session_id].detail = "Bash: ls -la"


\* The hook process h writes its record into the session's file in this step.
WritesRecord(h) ==
    /\ hook[h].pc = "write" /\ hook'[h].pc = "done"
    /\ files'[hook[h].input.session_id].ok
    /\ files' # files

\* C30: when the previous record of a session holds a Windows Terminal tab id
\* or a tmux pane id and the terminal lookup of a later write returns none for
\* that backend, the record written keeps the id, whatever the event.
C30_BackendIdPreserved ==
    [][\A h \in Hooks :
          WritesRecord(h) =>
             LET sid == hook[h].input.session_id
             IN  /\ (lastWritten[sid].runtime_id # "" /\ hook[h].ti.runtimeID = "")
                       => files'[sid].s.runtime_id = lastWritten[sid].runtime_id
                 /\ (lastWritten[sid].tmux_pane # "" /\ hook[h].ti.tmuxPane = "")
                       => files'[sid].s.tmux_pane = lastWritten[sid].tmux_pane]_vars

\* The part of C30 the code keeps: the tab id survives a write that is not
\* for a SessionStart.
C30_TabIdKeptUnlessStart ==
    [][\A h \in Hooks :
          (WritesRecord(h) /\ hook[h].input.hook_event_name # EventSessionStart) =>
             LET sid == hook[h].input.session_id
             IN  (lastWritten[sid].runtime_id # "" /\ hook[h].ti.runtimeID = "")
                    => files'[sid].s.runtime_id = lastWritten[sid].runtime_id]_vars

\* A SessionStart whose lookup returned no tab id is being written over a
\* record that holds one.
C30_StartDropsTabId ==
    \E h \in Hooks :
       /\ hook[h].pc = "write"
       /\ hook[h].input.hook_event_name = EventSessionStart
       /\ hook[h].ti.runtimeID = "" /\ hook[h].s.runtime_id = ""
       /\ lastWritten[hook[h].input.session_id].runtime_id = "tab-1"

\* A Stop whose lookup returned no pane is being written over a record that
\* holds one.
C30_StopDropsPane ==
    \E h \in Hooks :
       /\ hook[h].pc = "write"
       /\ hook[h].input.hook_event_name = EventStop
       /\ hook[h].ti.tmuxPane = "" /\ hook[h].s.tmux_pane = ""
       /\ lastWritten[hook[h].input.session_id].tmux_pane = "%1"


\* C26: Switch on a session with zero terminal-location descriptors returns
\* an error and invokes no backend: the goroutine of a click on such a
\* session makes no Select call, and when it has finished its result is the
\* error "no switching info available", never nil.
C26_ZeroDescriptorsError ==
    (viewer.running /\ viewer.statusMsg # "" /\ Len(viewer.sw.terms) = 0)
        => /\ viewer.sw.calls = <<>>
           /\ viewer.sw.running => viewer.sw.ret = "none"
           /\ ~viewer.sw.running => viewer.sw.ret = "no switching info available"

\* A click on a session without descriptors whose Switch has returned.
C26_Witness ==
    /\ viewer.running /\ viewer.statusMsg # ""
    /\ Len(viewer.sw.terms) = 0 /\ ~viewer.sw.running
    /\ viewer.sw.ret = "no switching info available"
    /\ \E i \in DOMAIN viewer.sessions : viewer.sessions[i].terminals = <<>>

\* The positions among the first i descriptors whose backend is registered,
\* in list order.
RegisteredUpTo(terms, i) ==
    SelectSeq([k \in 1 .. i |-> k], LAMBDA k : terms[k].backend \in backends)

\* C27: Switch invokes Select on the descriptors strictly in list order,
\* skips a descriptor of an unregistered backend and continues with the
\* next one, and never reorders or repeats a descriptor: the Select calls
\* made so far are exactly the registered descriptors among the ones
\* visited, in list order; nil is returned only when every descriptor has
\* been visited; an error of Select is returned at the descriptor it is
\* about.
C27_SelectInListOrder ==
    viewer.running =>
        LET sw == viewer.sw
        IN  /\ sw.i \in 0 .. Len(sw.terms)
            /\ sw.calls = RegisteredUpTo(sw.terms, sw.i)
            /\ \A k \in 1 .. Len(sw.calls) - 1 : sw.calls[k] < sw.calls[k + 1]
            /\ sw.ret = "nil" => sw.i = Len(sw.terms)
            /\ sw.ret = "select error"
                  => sw.calls # <<>> /\ sw.calls[Len(sw.calls)] = sw.i

\* Switch has returned nil for a list with an unregistered descriptor between
\* two registered ones: Select was called for the first and the third.
C27_Witness ==
    /\ viewer.running /\ ~viewer.sw.running /\ viewer.sw.ret = "nil"
    /\ Len(viewer.sw.terms) = 3
    /\ viewer.sw.terms[2].backend \notin backends
    /\ viewer.sw.calls = <<1, 3>>


\* The texts that Update sets when a click starts a switch.
SwitchingMessages ==
    {"Switching to " \o filepathBase(p) \o "..." : p \in {ApiProject, WebProject}}

\* C28, its first half: a left-button release on a mapped line starts the
\* focus action in the background and Update returns before the action has
\* done anything: right after the step that starts it no descriptor has been
\* visited and no result exists.
C28_UpdateReturnsFirst ==
    [][(viewer.running /\ ~viewer.sw.running /\ viewer'.sw.running)
          => /\ viewer'.sw.i = 0 /\ viewer'.sw.calls = <<>> /\ viewer'.sw.ret = "none"
             /\ viewer'.statusMsg \in SwitchingMessages]_vars

\* C28: the outcome of the focus action, success or failure, is surfaced in
\* the view as a transient status message: once the action has failed, the
\* status text that the view shows until its expiry tells so, that is, it is
\* no longer the text that was set when the action was started.
C28_OutcomeSurfaced ==
    (/\ viewer.running /\ ~viewer.sw.running
     /\ viewer.sw.ret \in {"select error", "no switching info available"}
     /\ now < viewer.statusUntil)
        => View_status(viewer, now) \notin SwitchingMessages

\* Whatever the action returns, the status text of the view is the one set
\* at the click, until it expires.
C28_OutcomeDropped ==
    (viewer.running /\ viewer.statusMsg # "")
        => /\ viewer.statusMsg \in SwitchingMessages
           /\ View_status(viewer, now) \in {"", viewer.statusMsg}
           /\ now >= viewer.statusUntil => View_status(viewer, now) = ""

\* The action has failed and the view still announces the switch.
C28_FailureUnreported ==
    /\ viewer.running /\ ~viewer.sw.running /\ viewer.sw.ret = "select error"
    /\ View_status(viewer, now) \in SwitchingMessages


\* C21: no viewer-side operation creates, modifies or deletes a session
\* file.  Every step of the live view (New, tick, flash tick, key, mouse,
\* resize, the goroutine of a click, quit) and of the --once snapshot leaves
\* the directory as it is, so the exited annotation of the list in memory is
\* never written back; the one step that changes the directory is the run
\* of main with --clean, which applies CleanAll.
C21_ViewerReadOnly ==
    [][\/ files' = files /\ dirState' = dirState /\ strays' = strays
       \/ /\ ~viewer.running /\ viewer'.exit = "cleaned"
          /\ files' = CleanAll(dirState, files)
          /\ dirState' = dirState /\ strays' = strays]_vars

\* The live view has handled a tick, the key p, a resize and a click whose
\* goroutine has returned; its list shows session B as exited while the
\* file of B still holds the status that the hook wrote.
C21_Witness ==
    /\ viewer.running /\ viewer.showSummary /\ viewer.width = 100
    /\ viewer.clickMap # <<>> /\ viewer.statusMsg # "" /\ viewer.sw.ret = "nil"
    /\ \E i \in DOMAIN viewer.sessions :
          /\ viewer.sessions[i].session_id = "B"
          /\ viewer.sessions[i].status = StatusExited
    /\ files["B"].ok /\ files["B"].s.status = StatusWorking


\* A frame that holds a project box with two sessions.
BoxedFrame ==
    render(<<[ZeroSession EXCEPT !.session_id = "A", !.project = ApiProject,
                                 !.status = StatusWorking, !.last_activity = 1],
             [ZeroSession EXCEPT !.session_id = "B", !.project = ApiProject,
                                 !.status = StatusIdle, !.last_activity = 1]>>,
           1, 0, [s \in SessionIDs |-> 0], "", FALSE, FALSE, "", 1).text

\* C24: with zero sessions the aggregator returns no groups, the renderer
\* emits the fixed empty-state text "No active sessions." and no project
\* box, in the live view and in the snapshot, whatever the width, the
\* toggles, the spinner frame and the clock; and buildClickMap returns the
\* empty map whatever the view text contains, be it the frame of the empty
\* list or a frame with connector lines.
C24_EmptyState ==
    (viewer.running /\ Len(viewer.sessions) = 0)
        => /\ GroupByProject(viewer.sessions) = <<>>
           /\ View(viewer, now).text
                 = "ccmonitor" \o "\n\n" \o "No active sessions." \o "\n"
                      \o renderHelp(viewer.showSummary)
           /\ RenderOnce(viewer.sessions, viewer.width, viewer.debug, now).text
                 = "ccmonitor" \o "\n\n" \o "No active sessions."
           /\ ~Contains(View(viewer, now).text, Bar)
           /\ View(viewer, now).rows = <<>>
           /\ buildClickMap(viewer.sessions, View(viewer, now).text) = <<>>
           /\ Contains(BoxedFrame, ConnMid) /\ Contains(BoxedFrame, ConnLast)
           /\ buildClickMap(viewer.sessions, BoxedFrame) = <<>>
           /\ viewer.clickMap = <<>>

\* The live view of an empty directory, after the key p and a resize.
C24_Witness ==
    /\ viewer.running /\ Len(viewer.sessions) = 0
    /\ \A f \in SessionIDs : ~files[f].ok
    /\ viewer.showSummary /\ viewer.width = 100 /\ viewer.spinner = 2 /\ now = 2


\* The frame that the tick handler renders for the click map, its lines.
TickFrame == render(viewer.sessions, viewer.spinner, viewer.width, viewer.flashUntil,
                    "", viewer.showSummary, viewer.debug, "", now).text

\* A line of a project box that starts with a tree connector.
IsIdentityLine(line) ==
    Len(line) >= 4 /\ SubSeq(line, 1, 4) \in {Bar \o " " \o ConnMid, Bar \o " " \o ConnLast}

\* A line of a project box that shows the status of session s.
IsStatusLineOf(line, s, sp) ==
    LET sd == statusDisplay(s.status, sp)
        st == sd.indicator \o " " \o sd.label
    IN  /\ Len(line) >= 5 + Len(st)
        /\ SubSeq(line, 1, 5 + Len(st))
              \in {Bar \o " " \o "   " \o st, Bar \o " " \o Bar \o "  " \o st}

\* The line numbers, counted from 0, of the identity line and of the status
\* line of the k-th session in render order: the k-th line with a connector
\* and the first line after it that shows the status of that session.
IdentityLineOf(lines, k) ==
    LET ys == {y \in 0 .. Len(lines) - 1 : IsIdentityLine(lines[y + 1])}
    IN  CHOOSE y \in ys : Cardinality({z \in ys : z < y}) = k - 1

StatusLineOf(lines, k, s, sp) ==
    LET after == {y \in IdentityLineOf(lines, k) + 1 .. Len(lines) - 1 :
                     IsStatusLineOf(lines[y + 1], s, sp)}
    IN  CHOOSE y \in after : \A z \in after : y <= z

\* The click map of a frame takes the identity line and the status line of
\* every session to that session, and has an entry for no line other than a
\* connector line and the line after one.
RoundTrip(sessions, frame, sp) ==
    LET lines == Split(frame, "\n")
        ordered == Flatten(GroupByProject(sessions))
        clickMap == buildClickMap(sessions, frame)
        mapsTo(y, sid) == y \in DOMAIN clickMap /\ clickMap[y] = sid
        conn(y) == Contains(lines[y + 1], ConnMid) \/ Contains(lines[y + 1], ConnLast)
    IN  /\ \A k \in DOMAIN ordered :
              /\ mapsTo(IdentityLineOf(lines, k), ordered[k].session_id)
              /\ mapsTo(StatusLineOf(lines, k, ordered[k], sp), ordered[k].session_id)
        /\ \A y \in DOMAIN clickMap : conn(y) \/ (y > 0 /\ conn(y - 1))

\* The text a row shows on its identity line has a line break.
BreaksLine(s) == Contains(s.last_prompt, "\n") \/ Contains(s.summary, "\n")

\* C22: click-map round trip: for every session list, width and toggle
\* setting, the line index of the identity line and the line index of the
\* status line of every session rendered in the frame both map to that
\* session's identifier in the result of buildClickMap, and a line that has
\* no tree connector and does not directly follow a connector line has no
\* entry.
C22_ClickMapRoundTrip ==
    viewer.running => RoundTrip(viewer.sessions, TickFrame, viewer.spinner)

\* The round trip of the frames in which no prompt and no summary has a line
\* break.
C22_RoundTripOfOneLinePrompts ==
    (viewer.running /\ \A i \in DOMAIN viewer.sessions : ~BreaksLine(viewer.sessions[i]))
        => RoundTrip(viewer.sessions, TickFrame, viewer.spinner)

\* The prompt of session A has two lines, so its row has three: the click
\* map of the tick takes the second line of the prompt to A and has no entry
\* for the status line of A.
C22_StatusLineUnmapped ==
    /\ viewer.running /\ viewer.clickMap # <<>>
    /\ \E i \in DOMAIN viewer.sessions : viewer.sessions[i].last_prompt = MultiLinePrompt
    /\ LET lines == Split(TickFrame, "\n")
           y == IdentityLineOf(lines, 1)
       IN  /\ viewer.clickMap = buildClickMap(viewer.sessions, TickFrame)
           /\ viewer.clickMap[y] = "A" /\ viewer.clickMap[y + 1] = "A"
           /\ ~IsStatusLineOf(lines[y + 2], viewer.sessions[1], viewer.spinner)
           /\ IsStatusLineOf(lines[y + 3], viewer.sessions[1], viewer.spinner)
           /\ (y + 2 \notin DOMAIN viewer.clickMap \/ viewer.clickMap[y + 2] # "A")


\* The rendered blocks of the sessions in render order, as renderView builds
\* them, at window width width.
RowBlocks(sessions, sp, width, flashUntil, showSummary, debug, hovered, t) ==
    LET wd == IF width = 0 THEN 80 ELSE width
        groups == GroupByProject(sessions)
        groupRows == [i \in DOMAIN groups |->
                         buildRows(groups[i].sessions, sp, flashUntil, showSummary,
                                   debug, t)]
        allRows == AppendAll(groupRows)
        w == [computeWidths(allRows) EXCEPT !.contentWidth = wd - 4 - 2]
    IN  [k \in DOMAIN allRows |->
            [s |-> Flatten(groups)[k],
             lines |-> Split(sessionRow_render(allRows[k], w, hovered, t).text, "\n")]]

\* A block of exactly two lines: the identity line, which starts with the
\* tree connector, then the status line; each is ended by a line break.
IsTwoLineBlock(b, sp) ==
    /\ Len(b.lines) = 3 /\ b.lines[3] = ""
    /\ IsIdentityLine(Bar \o " " \o b.lines[1])
    /\ IsStatusLineOf(Bar \o " " \o b.lines[2], b.s, sp)

\* C23: for every session and every combination of width, prompt/summary
\* toggle, debug flag and hover state, the rendered block of the session is
\* exactly two consecutive lines, the identity line (starting with the tree
\* connector) followed by the status/detail line, also when the session has
\* neither prompt nor summary.
C23_BlockIsTwoLines ==
    viewer.running =>
        \A width \in {0} \cup Widths, showSummary \in BOOLEAN, debug \in BOOLEAN,
           hovered \in BOOLEAN :
            LET blocks == RowBlocks(viewer.sessions, viewer.spinner, width,
                                    viewer.flashUntil, showSummary, debug, hovered, now)
            IN  \A k \in DOMAIN blocks : IsTwoLineBlock(blocks[k], viewer.spinner)

\* The blocks of the sessions whose prompt and summary have no line break.
C23_OneLinePromptsTwoLines ==
    viewer.running =>
        \A width \in {0} \cup Widths, showSummary \in BOOLEAN, debug \in BOOLEAN,
           hovered \in BOOLEAN :
            LET blocks == RowBlocks(viewer.sessions, viewer.spinner, width,
                                    viewer.flashUntil, showSummary, debug, hovered, now)
            IN  \A k \in DOMAIN blocks :
                   ~BreaksLine(blocks[k].s) => IsTwoLineBlock(blocks[k], viewer.spinner)

\* The block of a session with a prompt of two lines has three lines.
C23_ThreeLineBlock ==
    /\ viewer.running
    /\ LET blocks == RowBlocks(viewer.sessions, viewer.spinner, viewer.width,
                               viewer.flashUntil, viewer.showSummary, viewer.debug,
                               FALSE, now)
       IN  \E k \in DOMAIN blocks :
              /\ blocks[k].s.last_prompt = MultiLinePrompt
              /\ Len(blocks[k].lines) = 4
              /\ IsStatusLineOf(Bar \o " " \o blocks[k].lines[3], blocks[k].s,
                                viewer.spinner)


\* C25: rendering is deterministic in (session list, display toggles,
\* terminal width): the frame of the live view and the snapshot after a step
\* are those before the step when the step has changed neither the session
\* list nor the width nor the toggles, whatever it did to the wall clock,
\* the spinner frame or the flash table.
C25_RenderDeterministic ==
    [][(/\ viewer.running /\ viewer'.running
        /\ viewer'.sessions = viewer.sessions
        /\ viewer'.width = viewer.width
        /\ viewer'.showSummary = viewer.showSummary
        /\ viewer'.debug = viewer.debug)
          => /\ View(viewer', now') = View(viewer, now)
             /\ RenderOnce(viewer'.sessions, viewer'.width, viewer'.debug, now')
                   = RenderOnce(viewer.sessions, viewer.width, viewer.debug, now)]_vars

\* The frame is a function of the list, the width, the toggles, the spinner
\* frame, the flash table, the status message and the wall clock: a step
\* that changes none of them changes neither the frame nor the snapshot.
C25_SameStateSameFrame ==
    [][(/\ viewer.running /\ viewer'.running
        /\ viewer'.sessions = viewer.sessions
        /\ viewer'.width = viewer.width
        /\ viewer'.showSummary = viewer.showSummary
        /\ viewer'.debug = viewer.debug
        /\ viewer'.spinner = viewer.spinner
        /\ viewer'.flashUntil = viewer.flashUntil
        /\ now' = now)
          => /\ View(viewer', now') = View(viewer, now)
             /\ RenderOnce(viewer'.sessions, viewer'.width, viewer'.debug, now')
                   = RenderOnce(viewer.sessions, viewer.width, viewer.debug, now)]_vars

\* The snapshot of a list with a session last active at second 1 reads
\* "now" at second 1 and "1s ago" at second 2.
C25_ClockInSnapshot ==
    /\ viewer.running /\ now = 2 /\ Len(viewer.sessions) > 0
    /\ Contains(RenderOnce(viewer.sessions, viewer.width, viewer.debug, 2).text, "1s ago")
    /\ ~Contains(RenderOnce(viewer.sessions, viewer.width, viewer.debug, 1).text, "1s ago")

\* The lists with the elements of l in another order.
Reorderings(l) ==
    {[i \in DOMAIN l |-> l[p[i]]] :
        p \in {q \in [DOMAIN l -> DOMAIN l] : \A i, j \in DOMAIN l : q[i] = q[j] => i = j}}

\* C31: GroupByProject partitions its input: every session of the input is
\* in exactly one place of the result, in the group of its project; the
\* groups are in strictly ascending order of project path; the sessions of a
\* group are in ascending order of session id, whatever the order of the input
\* and the last-activity times.
C31_GroupByProjectPartitions ==
    LET in == viewer.loaded
        groups == GroupByProject(in)
        places == {<<g, k>> : g \in DOMAIN groups, k \in 1 .. 3}
        at == {x \in places : x[2] \in DOMAIN groups[x[1]].sessions}
    IN  /\ \A i \in DOMAIN in :
              /\ Cardinality({x \in at : groups[x[1]].sessions[x[2]] = in[i]}) = 1
              /\ \A x \in at : groups[x[1]].sessions[x[2]] = in[i]
                                  => groups[x[1]].project = in[i].project
        /\ Cardinality(at) = Len(in)
        /\ \A g, h \in DOMAIN groups :
              g < h => Rank(groups[g].project) < Rank(groups[h].project)
        /\ \A x, y \in at :
              (x[1] = y[1] /\ x[2] < y[2])
                 => Rank(groups[x[1]].sessions[x[2]].session_id)
                       < Rank(groups[y[1]].sessions[y[2]].session_id)
        /\ \A l \in Reorderings(in) : GroupByProject(l) = groups
        /\ viewer.exit = "printed" => viewer.sessions = Flatten(groups)

\* Two projects given web first, and two sessions of one project given in
\* descending order of id, the later one last active first.
C31_Witness ==
    /\ viewer.exit = "printed"
    /\ Len(viewer.loaded) = 3
    /\ viewer.loaded[1].project = WebProject
    /\ viewer.loaded[2].project = ApiProject /\ viewer.loaded[2].session_id = "C"
    /\ viewer.loaded[2].last_activity = 1
    /\ viewer.loaded[3].project = ApiProject /\ viewer.loaded[3].session_id = "A"
    /\ viewer.loaded[3].last_activity = 2
    /\ viewer.sessions = <<viewer.loaded[3], viewer.loaded[2], viewer.loaded[1]>>

\* C38: at most one flash tick is scheduled at any time: a reload tick that
\* detects a change while a flash is active, and so while the flash tick that
\* is scheduled keeps being rescheduled, does not schedule another one.
C38_OneFlashTickChain ==
    [][(/\ viewer.running /\ viewer'.running
        /\ viewer.flashTicks = 1
        /\ \E s \in SessionIDs : now < viewer.flashUntil[s])
          => viewer'.flashTicks <= 1]_vars

\* C32: exited is terminal in the view: a session the live view holds as
\* exited is exited in every later list of the view that holds its id.
C32_ExitedIsTerminal ==
    [][\A i \in DOMAIN viewer.sessions, j \in DOMAIN viewer'.sessions :
          (/\ viewer.running /\ viewer'.running
           /\ viewer.sessions[i].status = StatusExited
           /\ viewer'.sessions[j].session_id = viewer.sessions[i].session_id)
             => viewer'.sessions[j].status = StatusExited]_vars

\* The live view takes a step that changes what it holds of the directory:
\* a reload tick.
ReloadTick ==
    /\ viewer.running /\ viewer'.running
    /\ <<viewer.loaded, viewer.sessions, viewer.find, viewer.lastState,
         viewer.flashUntil, viewer.clickMap>>
          # <<viewer'.loaded, viewer'.sessions, viewer'.find, viewer'.lastState,
              viewer'.flashUntil, viewer'.clickMap>>

\* C33: after a reload tick the list of the live view is the list of the
\* records the directory holds at that tick, annotated with the process
\* lookups of that tick: a session whose file is gone is absent, and the status
\* and detail of a session are those of its file unless the lookup of this
\* tick found its process missing.
C33_ListIsFreshParse ==
    [][ReloadTick =>
          /\ viewer'.loaded = LoadAll(dirState, files).sessions
          /\ \A p \in Pids :
                viewer'.find[p] =
                   IF \E i \in DOMAIN viewer'.loaded : viewer'.loaded[i].pid = p
                   THEN viewer'.find[p] ELSE "none"
          /\ \A p \in Pids :
                viewer'.find[p] \in {"none", "error", FindProcess(viewer.goos, p, {})}
          /\ viewer'.sessions = CheckPIDLiveness(viewer'.loaded, viewer'.find)
          /\ \A f \in SessionIDs :
                ~files[f].exists =>
                   \A i \in DOMAIN viewer'.sessions : viewer'.sessions[i].session_id # f
          /\ \A i \in DOMAIN viewer'.sessions :
                \/ viewer'.sessions[i] = viewer'.loaded[i]
                \/ /\ viewer'.sessions[i].status = StatusExited
                   /\ viewer'.find[viewer'.loaded[i].pid] = "dead"]_vars

\* The live view has seen B at a reload tick; the file of B is gone, and the
\* list after a later tick is empty.
C33_Witness ==
    /\ viewer.running
    /\ viewer.lastState["B"] # NilString
    /\ ~files["B"].exists
    /\ viewer.loaded = <<>> /\ viewer.sessions = <<>>

\* The list m holds is the list it read, annotated with the lookups made for
\* the pids of that list.
AnnotatedFromOwnRead(m) ==
    /\ m.sessions = CheckPIDLiveness(m.loaded, m.find)
    /\ \A p \in Pids :
          m.find[p] # "none" <=> \E i \in DOMAIN m.loaded : m.loaded[i].pid = p

\* C35: in a reload cycle (monitor.New, a reload tick, the --once run) the
\* files are read, the liveness annotation is made on the list just read, and
\* the click map of a tick is built from a render of the annotated list: the
\* list a frame is rendered from never carries an annotation made for another
\* read.  (Between the ticks of this specification nothing the render reads
\* changes, so the click map of the last tick is the one of the current list.)
C35_ReadAnnotateRender ==
    /\ (viewer.running \/ viewer.exit = "printed") => AnnotatedFromOwnRead(viewer)
    /\ (/\ viewer.running
        /\ \A i \in DOMAIN viewer.sessions :
               viewer.lastState[viewer.sessions[i].session_id] # NilString)
          => viewer.clickMap =
                buildClickMap(viewer.sessions,
                              render(viewer.sessions, viewer.spinner, viewer.width,
                                     viewer.flashUntil, "", viewer.showSummary,
                                     viewer.debug, "", now).text)

\* The file of B was rewritten after its process ended: the list of the live
\* view has the rewritten record, annotated as exited, and the click map has
\* its lines.
C35_Witness ==
    /\ viewer.running
    /\ Len(viewer.sessions) = 1
    /\ viewer.loaded[1].status = StatusIdle
    /\ viewer.sessions[1].status = StatusExited
    /\ viewer.clickMap # <<>>
    /\ \A y \in DOMAIN viewer.clickMap : viewer.clickMap[y] = "B"

\* The sweep of the invocation h has returned.
SweepDone(h) == hook[h].sweepErr # "none"

\* C34: an invocation for SessionStart has finished its dead-pid sweep before
\* it reads the existing record, before its duplicate-pid cleanup and before
\* its write; one for SessionEnd has finished the sweep before it deletes its
\* own file.  No such invocation changes a file before its sweep.
C34_SweepComesFirst ==
    [][\A h \in Hooks :
          LET ev == StepInput(h).hook_event_name
          IN  (Stepped(h) /\ ev \in {EventSessionStart, EventSessionEnd}) =>
                 /\ (hook[h].pc \in {"load", "samepid", "open", "write", "remove"})
                       => SweepDone(h)
                 /\ hook[h].pc = "load" => ev = EventSessionStart
                 /\ hook[h].pc = "remove" => ev = EventSessionEnd
                 /\ files' # files => (hook[h].pc = "sweep" \/ SweepDone(h))
                 /\ hook[h].pc = "sweep" =>
                       /\ hook'[h].sweepErr # "none"
                       /\ hook'[h].pc \in {"load", "remove"}]_vars

\* A SessionStart whose sweep removed the file of its own session, left by a
\* process that has ended, is about to read the existing record.
C34_Witness ==
    \E h \in Hooks :
       /\ hook[h].input.hook_event_name = EventSessionStart
       /\ hook[h].pc = "load"
       /\ hook[h].input.session_id \in hook[h].swept
       /\ ~files[hook[h].input.session_id].exists

C36_WitnessStart ==
    /\ hook["h1"].input = EventInput("B", EventSessionStart)
    /\ hook["h1"].pc = "done" /\ hook["h1"].ret = "nil"
    /\ files["B"] = SessionFile(hook["h1"].s)
    /\ files["B"].s.pid = 0
    /\ lastWritten["B"].pid = 0

\* C37: when the pid of the record to write is <= 0, the duplicate-pid cleanup
\* removes no file: the files that record no pid stay beside each other.
C37_UnknownPidRemovesNothing ==
    [][\A h \in Hooks :
          (hook[h].pc = "samepid" /\ Stepped(h) /\ hook[h].s.pid <= 0) =>
             /\ files' = files
             /\ hook'[h].dups = {}]_vars

\* The cleanup has run for a record of B without pid while the file of A
\* records no pid either; A's file is still there.
C37_Witness ==
    /\ hook["h1"].input.session_id = "B"
    /\ hook["h1"].pc = "open"
    /\ hook["h1"].s.pid = 0
    /\ files["A"].ok /\ files["A"].s.pid = 0
    /\ files["B"].ok

\* Every entry of the click map m is for a session of the list and for a
\* line of that session's block in the frame: a line from its identity line
\* to its status line.
MapAgreesWithFrame(m, frame) ==
    LET lines == Split(frame, "\n")
        ordered == Flatten(GroupByProject(m.sessions))
    IN  \A y \in DOMAIN m.clickMap :
           \E k \in DOMAIN ordered :
              /\ ordered[k].session_id = m.clickMap[y]
              /\ IdentityLineOf(lines, k) <= y
              /\ y <= StatusLineOf(lines, k, ordered[k], m.spinner)

\* C39: whenever the live view can handle a click, its click map agrees with
\* the frame View returns then, also after a resize or the key p since the
\* last reload tick.
C39_ClickMapMatchesView ==
    viewer.running => MapAgreesWithFrame(viewer, View(viewer, now).text)

\* The click map agrees with the frame when no prompt and no summary of the
\* list has a line break.
C39_MatchesWithOneLinePrompts ==
    (viewer.running /\ \A i \in DOMAIN viewer.sessions : ~BreaksLine(viewer.sessions[i]))
        => MapAgreesWithFrame(viewer, View(viewer, now).text)

\* The click map was built while the rows showed the prompts; after the key p
\* the row of A shows its one-line summary, the row of B has moved up a line,
\* and the entry for the line that was B's status line is for the bottom
\* border of the box.
C39_StaleAfterToggle ==
    /\ viewer.running /\ viewer.showSummary
    /\ Len(viewer.sessions) = 2
    /\ viewer.sessions[1].last_prompt = MultiLinePrompt
    /\ viewer.sessions[2].project = ApiProject
    /\ LET lines == Split(View(viewer, now).text, "\n")
           y == IdentityLineOf(lines, 2)
       IN  /\ y + 2 \in DOMAIN viewer.clickMap
           /\ viewer.clickMap[y + 2] = "B"
           /\ StatusLineOf(lines, 2, viewer.sessions[2], viewer.spinner) = y + 1

\* The list the live view read is what the directory holds now.
ListUpToDate == viewer.loaded = LoadAll(dirState, files).sessions

\* C40: while the live view runs, exactly one reload tick is scheduled: each
\* handled tick schedules the next and no other message adds or removes one;
\* so a list that no longer is what the directory holds is replaced by one
\* that is, unless the view quits first; and the step that quits the view
\* changes no file.
C40_TickLoopKeepsListFresh ==
    /\ [](viewer.running => viewer.ticks = 1)
    /\ (viewer.running /\ ~ListUpToDate) ~> (~viewer.running \/ ListUpToDate)
    /\ [][(viewer.running /\ ~viewer'.running)
             => UNCHANGED <<dirState, files, strays>>]_vars

\* The live view has seen B and holds the record a hook wrote after it, and a
\* reload tick is scheduled.
C40_Witness ==
    /\ viewer.running /\ viewer.ticks = 1
    /\ viewer.lastState["B"] # NilString
    /\ Len(viewer.loaded) = 1
    /\ viewer.loaded[1] # WatchSession
    /\ ListUpToDate
====
